---- MODULE Spec2Model ----
(***************************************************************************)
(* Model of RequirementAnalystAgent (src/agents/requirement_analyst.py):   *)
(* the recovery pipeline that turns the text of a model response into the  *)
(* four-field analysis record.                                             *)
(*                                                                         *)
(* A text is a sequence of characters.  An ASCII character is the string   *)
(* that holds it, a character outside ASCII the string that names its code *)
(* point ("U+529F"), the backquote the string "BACKQUOTE".  Every Python   *)
(* str of the source is such a sequence, so that the regular expressions,  *)
(* the str methods and the JSON decoder are modelled character by          *)
(* character.  A position in a text is the Python index plus one; 0 stands *)
(* for Python's -1 and None.                                               *)
(***************************************************************************)
EXTENDS Integers, Sequences, FiniteSets, TLC

(***************************************************************************)
(* Characters and character classes                                        *)
(***************************************************************************)
QT == "\""
BS == "\\"
NL == "\n"
TAB == "\t"
CR == "\r"
SP == " "
\* the backquote character (a string literal cannot hold it)
BT == "BACKQUOTE"

LowerSeq == <<"a", "b", "c", "d", "e", "f", "g", "h", "i", "j", "k", "l", "m",
              "n", "o", "p", "q", "r", "s", "t", "u", "v", "w", "x", "y", "z">>
UpperSeq == <<"A", "B", "C", "D", "E", "F", "G", "H", "I", "J", "K", "L", "M",
              "N", "O", "P", "Q", "R", "S", "T", "U", "V", "W", "X", "Y", "Z">>
Lower == {LowerSeq[i] : i \in DOMAIN LowerSeq}
Upper == {UpperSeq[i] : i \in DOMAIN UpperSeq}
Digit == {"0", "1", "2", "3", "4", "5", "6", "7", "8", "9"}
Alpha == Lower \cup Upper
\* \s of the re module, and the characters str.strip() removes
Space == {SP, NL, TAB, CR}
\* ord(char) < 32
Control == {NL, TAB, CR}
\* [a-zA-Z_] and [a-zA-Z0-9_]
IdentStart == Alpha \cup {"_"}
IdentChar == Alpha \cup Digit \cup {"_"}
\* [a-zA-Z0-9\s]
AlnumSpace == Alpha \cup Digit \cup Space

\* str.lower() on one character
LowerChar(c) ==
  IF c \in Upper THEN LowerSeq[CHOOSE i \in DOMAIN UpperSeq : UpperSeq[i] = c] ELSE c

(***************************************************************************)
(* str operations                                                          *)
(***************************************************************************)
Max(a, b) == IF a >= b THEN a ELSE b
Min(a, b) == IF a <= b THEN a ELSE b

\* s[i:] and s[:i] with 1-based i (s[i..], s[..i])
From(s, i) == SubSeq(s, i, Len(s))
Upto(s, i) == SubSeq(s, 1, i)

\* s.lower()
StrLower(s) == [i \in DOMAIN s |-> LowerChar(s[i])]

\* p occurs in s at position i
MatchAt(s, i, p) ==
  /\ i >= 1
  /\ i + Len(p) - 1 <= Len(s)
  /\ \A k \in 1..Len(p) : s[i + k - 1] = p[k]

\* s.startswith(p), s.endswith(p), p in s
StartsWith(s, p) == MatchAt(s, 1, p)
EndsWith(s, p) == MatchAt(s, Len(s) - Len(p) + 1, p)
Contains(s, p) == \E i \in 1..(Len(s) - Len(p) + 1) : MatchAt(s, i, p)

\* s.find(p, from): the least position >= from where p occurs, 0 when none
\* (Python's -1)
FindFrom(s, p, from) ==
  LET hits == {i \in from..(Len(s) - Len(p) + 1) : MatchAt(s, i, p)}
  IN IF hits = {} THEN 0 ELSE CHOOSE i \in hits : \A j \in hits : i <= j
Find(s, p) == FindFrom(s, p, 1)

\* s.rfind(p): the greatest position where p occurs, 0 when none
RFind(s, p) ==
  LET hits == {i \in 1..(Len(s) - Len(p) + 1) : MatchAt(s, i, p)}
  IN IF hits = {} THEN 0 ELSE CHOOSE i \in hits : \A j \in hits : i >= j

\* the least position >= i holding a character outside cls (Len(s)+1 when none):
\* where a greedy cls* that starts at i stops
SkipClass(s, i, cls) ==
  CHOOSE j \in i..Max(i, Len(s) + 1) :
    /\ j > Len(s) \/ s[j] \notin cls
    /\ \A k \in i..(j - 1) : s[k] \in cls

\* the least position >= i holding a character of stop (Len(s)+1 when none):
\* where a greedy [^stop]* that starts at i ends
SkipUntil(s, i, stop) ==
  CHOOSE j \in i..Max(i, Len(s) + 1) :
    /\ j > Len(s) \/ s[j] \in stop
    /\ \A k \in i..(j - 1) : s[k] \notin stop

\* the greatest position holding a character outside cls, 0 when none
LastOutside(s, cls) ==
  CHOOSE j \in 0..Len(s) :
    /\ j = 0 \/ s[j] \notin cls
    /\ \A k \in (j + 1)..Len(s) : s[k] \in cls

\* s.strip()
Strip(s) == SubSeq(s, SkipClass(s, 1, Space), LastOutside(s, Space))

\* ''.join(c for c in s if c not in drop)
DropChars(s, drop) == SelectSeq(s, LAMBDA c : c \notin drop)

\* s.replace(c, r) for a single character c, from position i on
RECURSIVE ReplaceCharFrom(_, _, _, _)
ReplaceCharFrom(s, i, c, r) ==
  LET j == SkipUntil(s, i, {c})
  IN IF j > Len(s) THEN SubSeq(s, i, Len(s))
     ELSE SubSeq(s, i, j - 1) \o r \o ReplaceCharFrom(s, j + 1, c, r)
ReplaceChar(s, c, r) == ReplaceCharFrom(s, 1, c, r)

\* s.split(sep) for the separators seps, from position i on
RECURSIVE SplitFrom(_, _, _)
SplitFrom(s, i, seps) ==
  LET j == SkipUntil(s, i, seps)
  IN IF j > Len(s) THEN <<SubSeq(s, i, Len(s))>>
     ELSE <<SubSeq(s, i, j - 1)>> \o SplitFrom(s, j + 1, seps)
Split(s, seps) == SplitFrom(s, 1, seps)

\* concatenation of a sequence of texts
RECURSIVE Concat(_)
Concat(ss) == IF ss = <<>> THEN <<>> ELSE Head(ss) \o Concat(Tail(ss))

\* sep.join(ss)
RECURSIVE Join(_, _)
Join(ss, sep) ==
  IF ss = <<>> THEN <<>>
  ELSE IF Len(ss) = 1 THEN ss[1]
       ELSE ss[1] \o sep \o Join(Tail(ss), sep)

(***************************************************************************)
(* The keys of the schema and the other literals of the source             *)
(***************************************************************************)
K_functional_requirements ==
  <<"f", "u", "n", "c", "t", "i", "o", "n", "a", "l", "_",
    "r", "e", "q", "u", "i", "r", "e", "m", "e", "n", "t", "s">>
K_non_functional_requirements ==
  <<"n", "o", "n", "_", "f", "u", "n", "c", "t", "i", "o", "n", "a", "l", "_",
    "r", "e", "q", "u", "i", "r", "e", "m", "e", "n", "t", "s">>
K_test_scenarios ==
  <<"t", "e", "s", "t", "_", "s", "c", "e", "n", "a", "r", "i", "o", "s">>
K_risk_areas == <<"r", "i", "s", "k", "_", "a", "r", "e", "a", "s">>
K_id == <<"i", "d">>
K_description == <<"d", "e", "s", "c", "r", "i", "p", "t", "i", "o", "n">>
K_test_cases == <<"t", "e", "s", "t", "_", "c", "a", "s", "e", "s">>

\* required_keys of _validate_analysis_result and _fill_missing_requirements
required_keys ==
  <<K_functional_requirements, K_non_functional_requirements,
    K_test_scenarios, K_risk_areas>>

Quoted(w) == <<QT>> \o w \o <<QT>>
Fence == <<BT, BT, BT>>
FenceJson == Fence \o <<"j", "s", "o", "n">>

(***************************************************************************)
(* Payload locator: the five re.search calls of analyze.  A match is the   *)
(* span [lo, hi] of group 1; lo = 0 stands for None.                       *)
(***************************************************************************)
NoMatch == [lo |-> 0, hi |-> 0]

\* the least element of a set of positions, 0 for the empty set
Least(S) == IF S = {} THEN 0 ELSE CHOOSE i \in S : \A j \in S : i <= j
Greatest(S) == IF S = {} THEN 0 ELSE CHOOSE i \in S : \A j \in S : i >= j

\* r'```(?:json)?\s*({\s*".*?})\s*```' (DOTALL) tried at position i: the span
\* of group 1.  The lazy .*? ends at the first "}" that only whitespace
\* separates from a closing fence.
FencedAt(s, i) ==
  IF ~MatchAt(s, i, Fence) THEN NoMatch
  ELSE LET a == IF MatchAt(s, i, FenceJson) THEN i + 7 ELSE i + 3
           b == SkipClass(s, a, Space)
           c == SkipClass(s, b + 1, Space)
           ends == {k \in (c + 1)..Len(s) :
                      /\ s[k] = "}"
                      /\ MatchAt(s, SkipClass(s, k + 1, Space), Fence)}
       IN IF b <= Len(s) /\ s[b] = "{" /\ c <= Len(s) /\ s[c] = QT /\ ends # {}
          THEN [lo |-> b, hi |-> Least(ends)]
          ELSE NoMatch

SearchFenced(s) ==
  LET starts == {i \in DOMAIN s : FencedAt(s, i).lo # 0}
  IN IF starts = {} THEN NoMatch ELSE FencedAt(s, Least(starts))

\* r'({[\s\S]*"functional_requirements"[\s\S]*})': from the leftmost "{" that
\* has the quoted key after it and a "}" after the key, greedily to the last
\* "}" of the text
SearchKeyed(s) ==
  LET key == Quoted(K_functional_requirements)
      last == Greatest({k \in DOMAIN s : s[k] = "}"})
      starts == {i \in DOMAIN s :
                   /\ s[i] = "{"
                   /\ \E j \in (i + 1)..Len(s) :
                        MatchAt(s, j, key) /\ j + Len(key) <= last}
  IN IF starts = {} THEN NoMatch ELSE [lo |-> Least(starts), hi |-> last]

\* r'({[\s\S]*})': from the first "{" to the last "}"
SearchBraces(s) ==
  LET first == Least({i \in DOMAIN s : s[i] = "{"})
      last == Greatest({k \in DOMAIN s : s[k] = "}"})
  IN IF first # 0 /\ last > first THEN [lo |-> first, hi |-> last] ELSE NoMatch

\* r'(\{[^{}]*"[^{}]*"[^{}]*\})' (minQuotes = 2) and r'(\{[^{}]*\})'
\* (minQuotes = 0): a brace span with no brace inside
FlatAt(s, i, minQuotes) ==
  LET e == SkipUntil(s, i + 1, {"{", "}"})
  IN IF /\ s[i] = "{"
        /\ e <= Len(s)
        /\ s[e] = "}"
        /\ Cardinality({k \in (i + 1)..(e - 1) : s[k] = QT}) >= minQuotes
     THEN [lo |-> i, hi |-> e]
     ELSE NoMatch

SearchFlat(s, minQuotes) ==
  LET starts == {i \in DOMAIN s : FlatAt(s, i, minQuotes).lo # 0}
  IN IF starts = {} THEN NoMatch ELSE FlatAt(s, Least(starts), minQuotes)

\* LocatePayload with the third search tried before the second
LocatePayload_braces_first(s) ==
  LET m1 == SearchFenced(s)
      m2 == SearchKeyed(s)
      m3 == SearchBraces(s)
  IN IF m1.lo # 0 THEN [pat |-> 1, m |-> m1]
     ELSE IF m3.lo # 0 THEN [pat |-> 3, m |-> m3]
     ELSE IF m2.lo # 0 THEN [pat |-> 2, m |-> m2]
     ELSE [pat |-> 0, m |-> NoMatch]

\* the chain of "if not json_match:" of analyze: the first pattern that
\* matches wins; pat = 0 when none does
LocatePayload(s) ==
  LET m1 == SearchFenced(s)
      m2 == SearchKeyed(s)
      m3 == SearchBraces(s)
      m4 == SearchFlat(s, 2)
      m5 == SearchFlat(s, 0)
  IN IF m1.lo # 0 THEN [pat |-> 1, m |-> m1]
     ELSE IF m2.lo # 0 THEN [pat |-> 2, m |-> m2]
     ELSE IF m3.lo # 0 THEN [pat |-> 3, m |-> m3]
     ELSE IF m4.lo # 0 THEN [pat |-> 4, m |-> m4]
     ELSE IF m5.lo # 0 THEN [pat |-> 5, m |-> m5]
     ELSE [pat |-> 0, m |-> NoMatch]

\* re.sub(r'```json|```', '', s), from position i on
RECURSIVE RemoveFencesFrom(_, _)
RemoveFencesFrom(s, i) ==
  LET j == FindFrom(s, Fence, i)
  IN IF j = 0 THEN SubSeq(s, i, Len(s))
     ELSE SubSeq(s, i, j - 1)
          \o RemoveFencesFrom(s, IF MatchAt(s, j, FenceJson) THEN j + 7 ELSE j + 3)
RemoveFences(s) == RemoveFencesFrom(s, 1)

\* json_match.group(1), stripped and with the fence markers removed
ExtractCandidate(s, m) == RemoveFences(Strip(SubSeq(s, m.lo, m.hi)))

(***************************************************************************)
(* Structure validator: _is_valid_json_format                              *)
(***************************************************************************)
\* brace_count after the first k characters
BraceCount(s, k) ==
  Cardinality({i \in 1..k : s[i] = "{"}) - Cardinality({i \in 1..k : s[i] = "}"})

\* BraceScan without "if brace_count < 0: return False"
BraceScan_balance_only(s) == BraceCount(s, Len(s)) = 0

\* the counting scan: FALSE when the count is negative after some character,
\* else whether it ends at zero
BraceScan(s) ==
  /\ \A k \in DOMAIN s : s[k] = "}" => BraceCount(s, k) >= 0
  /\ BraceCount(s, Len(s)) = 0

is_valid_json_format(json_str) ==
  LET t == Strip(json_str)
  IN IF ~(StartsWith(t, <<"{">>) /\ EndsWith(t, <<"}">>)) THEN FALSE
     ELSE IF ~Contains(t, <<QT>>) THEN FALSE
     ELSE BraceScan(t)

(***************************************************************************)
(* Repair passes.  A re.sub is a left-to-right scan: where the pattern     *)
(* matches at position i the replacement is emitted and the scan resumes   *)
(* after the match, elsewhere the character is copied.  A match at i is    *)
(* [len, rep]; len = 0 stands for no match at i.                           *)
(***************************************************************************)
NoSub == [len |-> 0, rep |-> <<>>]

\* hits: the positions where the pattern matches; the scan from position i
\* takes the leftmost of them that is >= i
RECURSIVE SubScan(_, _, _, _)
SubScan(M(_, _), s, i, hits) ==
  LET j == Least({h \in hits : h >= i})
  IN IF j = 0 THEN SubSeq(s, i, Len(s))
     ELSE SubSeq(s, i, j - 1) \o M(s, j).rep \o SubScan(M, s, j + M(s, j).len, hits)
SubFrom(M(_, _), s, i) == SubScan(M, s, i, {h \in DOMAIN s : M(s, h).len > 0})

\* character at position i, or the empty string past the end
At(s, i) == IF i >= 1 /\ i <= Len(s) THEN s[i] ELSE ""

\* re.sub(r'([^\\])"([^"]*?)([^\\])"', r'\1"\2\3"', s): the template puts
\* back the three groups and the two quotes in the order they were matched,
\* so every match is replaced by itself
FixQuotePlacement(s) == s

\* _fix_json_format
fix_json_format(json_str) ==
  LET s1 == FixQuotePlacement(json_str)
      s2 == ReplaceChar(ReplaceChar(s1, NL, <<BS, "n">>), CR, <<BS, "r">>)
      s3 == ReplaceChar(s2, TAB, <<BS, "t">>)
      t == Strip(s3)
      \* rfind gives Python's index + 1 here, 0 for Python's -1
      last_complete_pair ==
        Max(Max(RFind(s3, <<QT, ",">>), RFind(s3, <<QT, "]", ",">>)),
            RFind(s3, <<QT, "}", ",">>))
  IN IF StartsWith(t, <<"{">>) /\ ~EndsWith(t, <<"}">>)
     THEN IF last_complete_pair > 1
          THEN Upto(s3, last_complete_pair + 1) \o <<"}">>
          ELSE s3
     ELSE s3

\* r'(\])\s*(\[)' -> r'\1,\2'
AdjacentArraysAt(s, i) ==
  LET a == SkipClass(s, i + 1, Space)
  IN IF s[i] = "]" /\ At(s, a) = "["
     THEN [len |-> a - i + 1, rep |-> <<"]", ",", "[">>]
     ELSE NoSub

\* r'(")\s*(")' -> r'\1,\2'
AdjacentQuotesAt(s, i) ==
  LET a == SkipClass(s, i + 1, Space)
  IN IF s[i] = QT /\ At(s, a) = QT
     THEN [len |-> a - i + 1, rep |-> <<QT, ",", QT>>]
     ELSE NoSub

\* r'([{,])\s*([a-zA-Z_][a-zA-Z0-9_]*)\s*:' -> r'\1"\2":'
BareKeyAt(s, i) ==
  LET a == SkipClass(s, i + 1, Space)
      e == SkipClass(s, a + 1, IdentChar)
      c == SkipClass(s, e, Space)
  IN IF s[i] \in {"{", ","} /\ At(s, a) \in IdentStart /\ At(s, c) = ":"
     THEN [len |-> c - i + 1,
           rep |-> <<s[i], QT>> \o SubSeq(s, a, e - 1) \o <<QT, ":">>]
     ELSE NoSub

\* r':\s*([a-zA-Z][a-zA-Z0-9\s]*?)([,}])' -> r': "\1"\2'
BareValueAt(s, i) ==
  LET a == SkipClass(s, i + 1, Space)
      e == SkipClass(s, a + 1, AlnumSpace)
  IN IF s[i] = ":" /\ At(s, a) \in Alpha /\ At(s, e) \in {",", "}"}
     THEN [len |-> e - i + 1,
           rep |-> <<":", SP, QT>> \o SubSeq(s, a, e - 1) \o <<QT, s[e]>>]
     ELSE NoSub

\* r'\[\s*([a-zA-Z][a-zA-Z0-9\s]*?)\s*([,\]])' -> r'["\1"\2': the lazy group
\* leaves the trailing whitespace to the \s* after it
BareElementAt(s, i) ==
  LET a == SkipClass(s, i + 1, Space)
      e == SkipClass(s, a + 1, AlnumSpace)
      g == Greatest({k \in a..(e - 1) : s[k] \notin Space})
  IN IF s[i] = "[" /\ At(s, a) \in Alpha /\ At(s, e) \in {",", "]"}
     THEN [len |-> e - i + 1,
           rep |-> <<"[", QT>> \o SubSeq(s, a, g) \o <<QT, s[e]>>]
     ELSE NoSub

\* the two "if ... startswith ... and not ... endswith" blocks of
\* _fix_json_aggressive; positions are Python's index + 1
CloseObject(s) ==
  LET t == Strip(s)
      last_valid_pos ==
        Max(Max(RFind(s, <<QT, ",">>), RFind(s, <<QT, "]", ",">>)),
            Max(RFind(s, <<QT, "}", ",">>), RFind(s, <<QT>>)))
  IN IF StartsWith(t, <<"{">>) /\ ~EndsWith(t, <<"}">>) /\ last_valid_pos > 1
     THEN IF s[last_valid_pos] = "," THEN Upto(s, last_valid_pos - 1) \o <<"}">>
          ELSE IF s[last_valid_pos] = QT THEN Upto(s, last_valid_pos) \o <<"}">>
          ELSE Upto(s, last_valid_pos + 1) \o <<"}">>
     ELSE s

CloseArray(s) ==
  LET t == Strip(s)
      last_valid_pos ==
        Max(Max(RFind(s, <<QT, ",">>), RFind(s, <<"}", ",">>)),
            Max(RFind(s, <<QT>>), RFind(s, <<"}">>)))
  IN IF StartsWith(t, <<"[">>) /\ ~EndsWith(t, <<"]">>) /\ last_valid_pos > 1
     THEN IF s[last_valid_pos] = "," THEN Upto(s, last_valid_pos - 1) \o <<"]">>
          ELSE IF s[last_valid_pos] \in {QT, "}"}
               THEN Upto(s, last_valid_pos) \o <<"]">>
          ELSE Upto(s, last_valid_pos + 1) \o <<"]">>
     ELSE s

\* _fix_json_aggressive
fix_json_aggressive(json_str) ==
  LET s1 == SubFrom(AdjacentArraysAt, json_str, 1)
      s2 == SubFrom(AdjacentQuotesAt, s1, 1)
      s3 == SubFrom(BareKeyAt, s2, 1)
      s4 == SubFrom(BareValueAt, s3, 1)
      s5 == SubFrom(BareElementAt, s4, 1)
  IN CloseArray(CloseObject(s5))

(***************************************************************************)
(* json.loads.  A decoded value is a record [t, v]:                        *)
(*   t = "str"   v = the characters of the string                          *)
(*   t = "list"  v = the sequence of the elements                          *)
(*   t = "dict"  v = the sequence of the items [k, val], in insertion      *)
(*                   order, one item per key                               *)
(*   t = "lit"   v = the characters of a number or of true, false, null    *)
(* A scan step answers [ok, val, pos]: pos is the position after the value *)
(* read; ok = FALSE stands for json.JSONDecodeError.  Numbers are integers *)
(* and \u escapes are not decoded: no text of the model holds a fraction,  *)
(* an exponent or a \u escape.                                             *)
(***************************************************************************)
JStr(chars) == [t |-> "str", v |-> chars]
JList(items) == [t |-> "list", v |-> items]
JDict(items) == [t |-> "dict", v |-> items]
JLit(chars) == [t |-> "lit", v |-> chars]
JNone == [t |-> "none", v |-> <<>>]

DecodeError == [ok |-> FALSE, val |-> JNone, pos |-> 0]
Decoded(val, pos) == [ok |-> TRUE, val |-> val, pos |-> pos]

\* d[k] = val on a dict: a key already present keeps its place
DictPut(items, k, val) ==
  IF \E i \in DOMAIN items : items[i].k = k
  THEN [i \in DOMAIN items |->
          IF items[i].k = k THEN [k |-> k, val |-> val] ELSE items[i]]
  ELSE Append(items, [k |-> k, val |-> val])

\* k in d, d[k]
HasKey(d, k) == \E i \in DOMAIN d.v : d.v[i].k = k
GetKey(d, k) == d.v[CHOOSE i \in DOMAIN d.v : d.v[i].k = k].val

\* the character an escape \c stands for; "" when \c is no escape
Unescape(c) ==
  CASE c = QT -> QT
    [] c = BS -> BS
    [] c = "/" -> "/"
    [] c = "n" -> NL
    [] c = "t" -> TAB
    [] c = "r" -> CR
    [] c = "b" -> "BACKSPACE"
    [] c = "f" -> "FORMFEED"
    [] OTHER -> ""

\* the string whose opening quote is before position j; a control character
\* inside a string is an error (strict mode)
RECURSIVE ScanString(_, _, _)
ScanString(s, j, acc) ==
  LET q == SkipUntil(s, j, {QT, BS} \cup Control)
      chunk == acc \o SubSeq(s, j, q - 1)
  IN IF q > Len(s) THEN DecodeError
     ELSE IF s[q] = QT THEN Decoded(JStr(chunk), q + 1)
     ELSE IF s[q] = BS /\ Unescape(At(s, q + 1)) # ""
          THEN ScanString(s, q + 2, Append(chunk, Unescape(s[q + 1])))
     ELSE DecodeError

\* -?(0|[1-9][0-9]*) at position i
ScanNumber(s, i) ==
  LET d == IF s[i] = "-" THEN i + 1 ELSE i
      e == IF At(s, d) = "0" THEN d + 1 ELSE SkipClass(s, d, Digit)
  IN IF At(s, d) \in Digit THEN Decoded(JLit(SubSeq(s, i, e - 1)), e)
     ELSE DecodeError

Word_true == <<"t", "r", "u", "e">>
Word_false == <<"f", "a", "l", "s", "e">>
Word_null == <<"n", "u", "l", "l">>

RECURSIVE ScanValue(_, _), ScanElements(_, _, _), ScanMembers(_, _, _)

\* scan_once: the value that starts at position i
ScanValue(s, i) ==
  LET c == At(s, i)
  IN IF c = QT THEN ScanString(s, i + 1, <<>>)
     ELSE IF c = "{"
          THEN LET a == SkipClass(s, i + 1, Space)
               IN IF At(s, a) = "}" THEN Decoded(JDict(<<>>), a + 1)
                  ELSE ScanMembers(s, a, <<>>)
     ELSE IF c = "["
          THEN LET a == SkipClass(s, i + 1, Space)
               IN IF At(s, a) = "]" THEN Decoded(JList(<<>>), a + 1)
                  ELSE ScanElements(s, a, <<>>)
     ELSE IF MatchAt(s, i, Word_true) THEN Decoded(JLit(Word_true), i + 4)
     ELSE IF MatchAt(s, i, Word_false) THEN Decoded(JLit(Word_false), i + 5)
     ELSE IF MatchAt(s, i, Word_null) THEN Decoded(JLit(Word_null), i + 4)
     ELSE IF c = "-" \/ c \in Digit THEN ScanNumber(s, i)
     ELSE DecodeError

\* the elements of an array from position i, where an element must start
ScanElements(s, i, acc) ==
  LET r == ScanValue(s, i)
  IN IF ~r.ok THEN DecodeError
     ELSE LET a == SkipClass(s, r.pos, Space)
              items == Append(acc, r.val)
          IN IF At(s, a) = "]" THEN Decoded(JList(items), a + 1)
             ELSE IF At(s, a) = ","
                  THEN ScanElements(s, SkipClass(s, a + 1, Space), items)
             ELSE DecodeError

\* the members of an object from position i, where a key must start
ScanMembers(s, i, acc) ==
  IF At(s, i) # QT THEN DecodeError
  ELSE LET key == ScanString(s, i + 1, <<>>)
       IN IF ~key.ok THEN DecodeError
          ELSE LET c == SkipClass(s, key.pos, Space)
               IN IF At(s, c) # ":" THEN DecodeError
                  ELSE LET r == ScanValue(s, SkipClass(s, c + 1, Space))
                       IN IF ~r.ok THEN DecodeError
                          ELSE LET a == SkipClass(s, r.pos, Space)
                                   items == DictPut(acc, key.val.v, r.val)
                               IN IF At(s, a) = "}"
                                  THEN Decoded(JDict(items), a + 1)
                                  ELSE IF At(s, a) = ","
                                  THEN ScanMembers(s, SkipClass(s, a + 1, Space),
                                                   items)
                                  ELSE DecodeError

\* json.loads(s): [ok, val]; text after the value is an error ("Extra data")
json_loads(s) ==
  LET r == ScanValue(s, SkipClass(s, 1, Space))
  IN IF r.ok /\ SkipClass(s, r.pos, Space) = Len(s) + 1
     THEN [ok |-> TRUE, val |-> r.val]
     ELSE [ok |-> FALSE, val |-> JNone]

(***************************************************************************)
(* Python values.  The values of the record are the decoded values above   *)
(* (str, list, dict) and TestScenario objects, t = "TestScenario" with     *)
(* v = [id, description, test_cases].                                      *)
(***************************************************************************)
\* TestScenario(id=..., description=..., test_cases=...) of
\* src/schemas/communication.py
TestScenario(id, description, test_cases) ==
  [t |-> "TestScenario",
   v |-> [id |-> id, description |-> description, test_cases |-> test_cases]]

\* a list of str
StrList(texts) == JList([i \in DOMAIN texts |-> JStr(texts[i])])

\* bool(v) is False
Falsy(val) ==
  \/ val.t \in {"str", "list", "dict"} /\ val.v = <<>>
  \/ val.t = "none"
  \/ val.t = "lit" /\ val.v \in {Word_false, Word_null, <<"0">>}

\* the record analyze returns: a dict with the four keys
Record(fr, nfr, ts, ra) ==
  [shape |-> "record",
   functional_requirements |-> fr,
   non_functional_requirements |-> nfr,
   test_scenarios |-> ts,
   risk_areas |-> ra]

\* {"error": ..., "details": ...}
ErrorResult ==
  [shape |-> "error",
   functional_requirements |-> JNone,
   non_functional_requirements |-> JNone,
   test_scenarios |-> JNone,
   risk_areas |-> JNone]

\* no value yet (None)
NoResult ==
  [shape |-> "none",
   functional_requirements |-> JNone,
   non_functional_requirements |-> JNone,
   test_scenarios |-> JNone,
   risk_areas |-> JNone]

\* f"TS{n:03d}"
DigitSeq == <<"0", "1", "2", "3", "4", "5", "6", "7", "8", "9">>
RECURSIVE Decimal(_)
Decimal(n) ==
  IF n < 10 THEN <<DigitSeq[n + 1]>>
  ELSE Decimal(n \div 10) \o <<DigitSeq[(n % 10) + 1]>>
ScenarioId(n) ==
  LET d == Decimal(n)
  IN <<"T", "S">> \o [i \in 1..(3 - Len(d)) |-> "0"] \o d

\* the placeholder texts of the source
T_need_functional ==
  <<"U+9700", "U+8981", "U+63D0", "U+4F9B", "U+5177", "U+4F53", "U+7684", "U+529F", "U+80FD", "U+9700", "U+6C42">>
T_need_non_functional ==
  <<"U+9700", "U+8981", "U+63D0", "U+4F9B", "U+5177", "U+4F53", "U+7684", "U+975E", "U+529F", "U+80FD", "U+9700", "U+6C42">>
T_need_scenario ==
  <<"U+9700", "U+8981", "U+63D0", "U+4F9B", "U+5177", "U+4F53", "U+7684", "U+6D4B", "U+8BD5", "U+573A", "U+666F">>
T_need_risk ==
  <<"U+9700", "U+8981", "U+8BC4", "U+4F30", "U+5177", "U+4F53", "U+7684", "U+98CE", "U+9669", "U+9886", "U+57DF">>
T_need_content == <<"U+9700", "U+8981", "U+8865", "U+5145", "U+5177", "U+4F53", "U+5185", "U+5BB9">>
T_fallback_functional ==
  <<"U+9700", "U+8981", "U+6839", "U+636E", "U+5177", "U+4F53", "U+9700", "U+6C42", "U+6587", "U+6863",
    "U+786E", "U+5B9A", "U+529F", "U+80FD", "U+9700", "U+6C42">>
T_fallback_non_functional ==
  <<<<"U+6027", "U+80FD", "U+8981", "U+6C42">>, <<"U+5B89", "U+5168", "U+8981", "U+6C42">>,
    <<"U+53EF", "U+7528", "U+6027", "U+8981", "U+6C42">>>>
T_fallback_scenario ==
  <<"U+9700", "U+8981", "U+6839", "U+636E", "U+5177", "U+4F53", "U+9700", "U+6C42", "U+786E", "U+5B9A",
    "U+6D4B", "U+8BD5", "U+573A", "U+666F">>
T_fallback_risk ==
  <<<<"U+6570", "U+636E", "U+5B89", "U+5168", "U+98CE", "U+9669">>, <<"U+7CFB", "U+7EDF", "U+6027", "U+80FD", "U+98CE", "U+9669">>,
    <<"U+7528", "U+6237", "U+4F53", "U+9A8C", "U+98CE", "U+9669">>>>

\* the default scenario of analyze, _get_default_result, _extract_test_scenarios
\* and _build_structured_result
DefaultScenario == TestScenario(JStr(ScenarioId(1)), JStr(T_need_scenario), JList(<<>>))

\* _get_default_result, and the default_result of analyze for an empty document
get_default_result ==
  Record(StrList(<<T_need_functional>>), StrList(<<T_need_non_functional>>),
         JList(<<DefaultScenario>>), StrList(<<T_need_risk>>))

(***************************************************************************)
(* Record builder: _build_structured_result                                *)
(***************************************************************************)
\* d.get(k, default)
DictGet(d, k, default) == IF HasKey(d, k) THEN GetKey(d, k) ELSE default

\* the loop over parsed_result["test_scenarios"]: an entry that is no dict is
\* skipped, an entry without id gets one from the count converted so far
RECURSIVE ConvertScenarios(_, _)
ConvertScenarios(entries, test_scenarios) ==
  IF entries = <<>> THEN test_scenarios
  ELSE LET scenario == Head(entries)
       IN IF scenario.t = "dict"
          THEN ConvertScenarios(Tail(entries),
                 Append(test_scenarios,
                   TestScenario(
                     DictGet(scenario, K_id,
                             JStr(ScenarioId(Len(test_scenarios) + 1))),
                     DictGet(scenario, K_description, JStr(<<>>)),
                     DictGet(scenario, K_test_cases, JList(<<>>)))))
          ELSE ConvertScenarios(Tail(entries), test_scenarios)

build_structured_result(parsed_result) ==
  Record(DictGet(parsed_result, K_functional_requirements, JList(<<>>)),
         DictGet(parsed_result, K_non_functional_requirements, JList(<<>>)),
         IF /\ HasKey(parsed_result, K_test_scenarios)
            /\ GetKey(parsed_result, K_test_scenarios).t = "list"
         THEN JList(ConvertScenarios(GetKey(parsed_result, K_test_scenarios).v, <<>>))
         ELSE JList(<<DefaultScenario>>),
         DictGet(parsed_result, K_risk_areas, JList(<<>>)))

(***************************************************************************)
(* Result finalizer: _validate_analysis_result, _fill_missing_requirements *)
(***************************************************************************)
\* result[key]: every record of the model holds the four keys
Field(result, key) ==
  CASE key = K_functional_requirements -> result.functional_requirements
    [] key = K_non_functional_requirements -> result.non_functional_requirements
    [] key = K_test_scenarios -> result.test_scenarios
    [] key = K_risk_areas -> result.risk_areas

validate_analysis_result(result) ==
  \A i \in DOMAIN required_keys : Field(result, required_keys[i]).t = "list"

default_value == StrList(<<T_need_content>>)

FillField(val) == IF Falsy(val) THEN default_value ELSE val

fill_missing_requirements(result) ==
  Record(FillField(result.functional_requirements),
         FillField(result.non_functional_requirements),
         FillField(result.test_scenarios),
         FillField(result.risk_areas))

\* "if not self._validate_analysis_result(...): self._fill_missing_requirements(...)"
Finalize(result) ==
  IF ~validate_analysis_result(result) THEN fill_missing_requirements(result)
  ELSE result

(***************************************************************************)
(* Label extractor: _extract_fallback_from_text.  A character outside      *)
(* ASCII is written as its code point, "U+529F"; the comments give the     *)
(* meaning of each word.                                                   *)
(***************************************************************************)
\* [U+FF1A:] and [,U+FF0CU+3001;U+FF1B]
Colons == {":", "U+FF1A"}
ListSeparators == {",", "U+FF0C", "U+3001", ";", "U+FF1B"}

\* the words of the headings and labels
W_functional_req == <<"U+529F", "U+80FD", "U+9700", "U+6C42">>       \* gong neng xu qiu: functional requirement
W_functional_demand == <<"U+529F", "U+80FD", "U+8981", "U+6C42">>    \* gong neng yao qiu: functional demand
W_main_function == <<"U+4E3B", "U+8981", "U+529F", "U+80FD">>        \* zhu yao gong neng: main function
W_core_function == <<"U+6838", "U+5FC3", "U+529F", "U+80FD">>        \* he xin gong neng: core function
W_non_functional_req == <<"U+975E", "U+529F", "U+80FD", "U+9700", "U+6C42">> \* fei gong neng xu qiu: non-functional requirement
W_performance_demand == <<"U+6027", "U+80FD", "U+8981", "U+6C42">>   \* xing neng yao qiu: performance demand
W_quality_demand == <<"U+8D28", "U+91CF", "U+8981", "U+6C42">>       \* zhi liang yao qiu: quality demand
W_constraints == <<"U+7EA6", "U+675F", "U+6761", "U+4EF6">>          \* yue shu tiao jian: constraints
W_test_scenario == <<"U+6D4B", "U+8BD5", "U+573A", "U+666F">>        \* ce shi chang jing: test scenario
W_test_case == <<"U+6D4B", "U+8BD5", "U+7528", "U+4F8B">>            \* ce shi yong li: test case
W_test_situation == <<"U+6D4B", "U+8BD5", "U+60C5", "U+51B5">>       \* ce shi qing kuang: test situation
W_risk_area == <<"U+98CE", "U+9669", "U+9886", "U+57DF">>            \* feng xian ling yu: risk area
W_potential_risk == <<"U+6F5C", "U+5728", "U+98CE", "U+9669">>       \* qian zai feng xian: potential risk
W_risk_point == <<"U+98CE", "U+9669", "U+70B9">>             \* feng xian dian: risk point
W_notes == <<"U+6CE8", "U+610F", "U+4E8B", "U+9879">>                \* zhu yi shi xiang: points to note

functional_patterns ==
  <<W_functional_req, W_functional_demand, W_main_function, W_core_function>>
non_functional_patterns ==
  <<W_non_functional_req, W_performance_demand, W_quality_demand, W_constraints>>
test_scenario_patterns == <<W_test_scenario, W_test_case, W_test_situation>>
risk_patterns == <<W_risk_area, W_potential_risk, W_risk_point, W_notes>>

\* label + r'[U+FF1A:]\s*(.+)' tried at position i: [len, group], len = 0 for no
\* match.  "." matches no line break; when only whitespace follows the colon
\* the \s* gives back its last character that is no line break to the group.
LabelAt(s, i, label) ==
  LET c == i + Len(label)
      a == SkipClass(s, c + 1, Space)
      e == SkipUntil(s, a, {NL})
      back == Greatest({x \in (c + 1)..Len(s) : s[x] # NL})
  IN IF ~(MatchAt(s, i, label) /\ At(s, c) \in Colons)
     THEN [len |-> 0, group |-> <<>>]
     ELSE IF a <= Len(s) THEN [len |-> e - i, group |-> SubSeq(s, a, e - 1)]
     ELSE IF back # 0 THEN [len |-> back - i + 1, group |-> <<s[back]>>]
     ELSE [len |-> 0, group |-> <<>>]

\* re.findall(label pattern, s): the groups of the non-overlapping matches
RECURSIVE FindAllLabel(_, _, _)
FindAllLabel(s, i, label) ==
  LET j == Least({h \in i..Len(s) : LabelAt(s, h, label).len > 0})
  IN IF j = 0 THEN <<>>
     ELSE <<LabelAt(s, j, label).group>>
          \o FindAllLabel(s, j + LabelAt(s, j, label).len, label)

\* the matches of the first pattern of the list that matches at all
RECURSIVE FirstMatches(_, _)
FirstMatches(s, patterns) ==
  IF patterns = <<>> THEN <<>>
  ELSE LET matches == FindAllLabel(s, 1, Head(patterns))
       IN IF matches # <<>> THEN matches ELSE FirstMatches(s, Tail(patterns))

\* re.split(r'[,U+FF0CU+3001;U+FF1B]', match.strip()), each piece stripped
Pieces(match) ==
  LET parts == Split(Strip(match), ListSeparators)
  IN [i \in DOMAIN parts |-> Strip(parts[i])]

\* "if req and len(req) > 2"
AcceptPiece(piece) == piece # <<>> /\ Len(piece) > 2

\* the accepted pieces of every match, as a list of str
RECURSIVE LabelledTexts(_)
LabelledTexts(matches) ==
  IF matches = <<>> THEN <<>>
  ELSE SelectSeq(Pieces(Head(matches)), AcceptPiece) \o LabelledTexts(Tail(matches))

\* {"id": ..., "description": ..., "test_cases": []}
ScenarioDict(id, description) ==
  JDict(<<[k |-> K_id, val |-> JStr(id)],
          [k |-> K_description, val |-> JStr(description)],
          [k |-> K_test_cases, val |-> JList(<<>>)]>>)

\* "for i, scenario in enumerate(scenarios)": the id comes from the index of
\* the piece within its own match
RECURSIVE ScenariosOfPieces(_, _)
ScenariosOfPieces(pieces, i) ==
  IF i > Len(pieces) THEN <<>>
  ELSE (IF AcceptPiece(pieces[i]) THEN <<ScenarioDict(ScenarioId(i), pieces[i])>>
        ELSE <<>>) \o ScenariosOfPieces(pieces, i + 1)

RECURSIVE LabelledScenarios(_)
LabelledScenarios(matches) ==
  IF matches = <<>> THEN <<>>
  ELSE ScenariosOfPieces(Pieces(Head(matches)), 1) \o LabelledScenarios(Tail(matches))

\* _extract_fallback_from_text
extract_fallback_from_text(response_str) ==
  LET fr == LabelledTexts(FirstMatches(response_str, functional_patterns))
      nfr == LabelledTexts(FirstMatches(response_str, non_functional_patterns))
      ts == LabelledScenarios(FirstMatches(response_str, test_scenario_patterns))
      ra == LabelledTexts(FirstMatches(response_str, risk_patterns))
  IN Record(IF fr = <<>> THEN StrList(<<T_fallback_functional>>) ELSE StrList(fr),
            IF nfr = <<>> THEN StrList(T_fallback_non_functional) ELSE StrList(nfr),
            IF ts = <<>> THEN JList(<<ScenarioDict(ScenarioId(1), T_fallback_scenario)>>)
            ELSE JList(ts),
            IF ra = <<>> THEN StrList(T_fallback_risk) ELSE StrList(ra))

(***************************************************************************)
(* JSON fallback: the candidates of _extract_json_fallback                 *)
(***************************************************************************)
\* r'\{[^{}]*"key"[^{}]*\}' tried at position i: the span, lo = 0 for none
FlatKeyedAt(s, i, key) ==
  LET e == SkipUntil(s, i + 1, {"{", "}"})
  IN IF /\ s[i] = "{"
        /\ At(s, e) = "}"
        /\ \E j \in (i + 1)..(e - 1) :
             MatchAt(s, j, Quoted(key)) /\ j + Len(key) + 2 <= e
     THEN [lo |-> i, hi |-> e]
     ELSE NoMatch

\* re.findall of that pattern: the matched texts, left to right
RECURSIVE FindAllFlatKeyed(_, _, _)
FindAllFlatKeyed(s, i, key) ==
  LET j == Least({h \in i..Len(s) : FlatKeyedAt(s, h, key).lo # 0})
  IN IF j = 0 THEN <<>>
     ELSE <<SubSeq(s, j, FlatKeyedAt(s, j, key).hi)>>
          \o FindAllFlatKeyed(s, FlatKeyedAt(s, j, key).hi + 1, key)

\* brace_count of the characters at the positions lo..hi
BracesIn(s, lo, hi) ==
  Cardinality({i \in lo..hi : s[i] = "{"}) - Cardinality({i \in lo..hi : s[i] = "}"})

\* "for i in range(start_pos, -1, -1)": start_brace, the first position going
\* backwards where the count is 1, start_pos when there is none
BackwardBrace(s, start_pos) ==
  LET stops == {i \in 1..start_pos : BracesIn(s, i, start_pos) = 1}
  IN IF stops = {} THEN start_pos ELSE Greatest(stops)

\* "for i in range(start_pos + len(match), len(response_str))": the last
\* position of the text taken (end_brace is one past it): the first position
\* from after on where the count is 0, after - 1 when there is none
ForwardBrace(s, after) ==
  LET stops == {i \in after..Len(s) : BracesIn(s, after, i) = 0}
  IN IF stops = {} THEN after - 1 ELSE Least(stops)

\* full_json for one match
FullJson(s, match) ==
  LET start_pos == Find(s, match)
  IN SubSeq(s, BackwardBrace(s, start_pos), ForwardBrace(s, start_pos + Len(match)))

fallback_keys == <<K_functional_requirements, K_test_scenarios, K_risk_areas>>

\* the texts _extract_json_fallback tries, in the order of its two loops
RECURSIVE FallbackCandidatesOf(_, _)
FallbackCandidatesOf(s, keys) ==
  IF keys = <<>> THEN <<>>
  ELSE LET matches == FindAllFlatKeyed(s, 1, Head(keys))
       IN [i \in DOMAIN matches |-> FullJson(s, matches[i])]
          \o FallbackCandidatesOf(s, Tail(keys))
FallbackCandidates(s) == FallbackCandidatesOf(s, fallback_keys)

(***************************************************************************)
(* Heading scanners: _extract_functional_reqs, _extract_non_functional_reqs,*)
(* _extract_test_scenarios, _extract_risk_areas                            *)
(***************************************************************************)
\* message.split('\n')
Lines(message) == Split(message, {NL})

\* ''.join(char for char in line.strip() if ord(char) >= 32)
CleanLine(line) == DropChars(Strip(line), Control)

\* any(marker in text for marker in markers)
ContainsAny(text, markers) == \E i \in DOMAIN markers : Contains(text, markers[i])

\* any(text.startswith(prefix) for prefix in prefixes)
StartsWithAny(text, prefixes) == \E i \in DOMAIN prefixes : StartsWith(text, prefixes[i])

\* title_patterns and exit_patterns of _extract_functional_reqs
title_patterns ==
  <<W_functional_req,
    <<"f", "u", "n", "c", "t", "i", "o", "n", "a", "l", "r", "e", "q", "u", "i", "r", "e", "m", "e", "n", "t", "s">>,
    <<"U+529F", "U+80FD", "U+5217", "U+8868">>,
    <<"U+529F", "U+80FD", "U+70B9">>,
    <<"f", "e", "a", "t", "u", "r", "e">>,
    <<"f", "u", "n", "c", "t", "i", "o", "n", "a", "l", " ", "s", "p", "e", "c">>,
    <<"U+529F", "U+80FD", "U+89C4", "U+683C">>,
    W_core_function>>
exit_patterns ==
  <<W_non_functional_req,
    <<"n", "o", "n", "-", "f", "u", "n", "c", "t", "i", "o", "n", "a", "l">>,
    <<"U+975E", "U+529F", "U+80FD", "U+6027", "U+9700", "U+6C42">>,
    <<"U+6027", "U+80FD", "U+9700", "U+6C42">>,
    W_constraints,
    W_test_scenario>>

\* line.lower().replace('U+FF1A', ':').replace(' ', '')
CleanedLine(line) ==
  DropChars(ReplaceChar(StrLower(line), "U+FF1A", <<":">>), {SP})

\* numbered_pattern r'^[(U+FF08\[U+3010]?[\dA-Za-zU+4E00U+4E8CU+4E09U+56DBU+4E94U+516DU+4E03U+516BU+4E5DU+5341][\]U+FF09U+3011\.U+3001]':
\* the length of the prefix it matches, 0 for no match
NumberOpeners == {"(", "U+FF08", "[", "U+3010"}
NumberChars ==
  Digit \cup Alpha \cup {"U+4E00", "U+4E8C", "U+4E09", "U+56DB", "U+4E94",
                         "U+516D", "U+4E03", "U+516B", "U+4E5D", "U+5341"}
NumberClosers == {"]", "U+FF09", "U+3011", ".", "U+3001"}
NumberedPrefix(content) ==
  IF At(content, 1) \in NumberOpeners
  THEN IF At(content, 2) \in NumberChars /\ At(content, 3) \in NumberClosers
       THEN 3 ELSE 0
  ELSE IF At(content, 1) \in NumberChars /\ At(content, 2) \in NumberClosers
       THEN 2 ELSE 0

\* bullet_pattern r'^[\-\*U+2022U+203AU+27A2U+25B7U+2713U+2714U+29BFU+25C9U+25C6U+25C7U+25A0U+25A1U+25CFU+25CB]'
BulletChars ==
  {"-", "*", "U+2022", "U+203A", "U+27A2", "U+25B7", "U+2713", "U+2714",
   "U+29BF", "U+25C9", "U+25C6", "U+25C7", "U+25A0", "U+25A1", "U+25CF",
   "U+25CB"}

\* r'[U+3010U+3011U+3016U+3017U+201CU+201DU+2018U+2019U+1F600-U+1F64FU+00A7U+203BU+2605U+2606U+2640U+2642]' and r'[U+3010U+3011U+3016U+3017U+201CU+201DU+2018U+2019U+1F600-U+1F64F]'; of the range U+1F600-U+1F64F
\* the two ends stand for the whole range
Decorations ==
  {"U+3010", "U+3011", "U+3016", "U+3017", "U+201C", "U+201D", "U+2018",
   "U+2019", "U+1F600", "U+1F64F"}
DecorationsAndSymbols ==
  Decorations \cup {"U+00A7", "U+203B", "U+2605", "U+2606", "U+2640", "U+2642"}

\* business_verbs
business_verbs ==
  <<<<"U+5E94">>, <<"U+9700", "U+8981">>, <<"U+652F", "U+6301">>, <<"U+5B9E", "U+73B0">>, <<"U+63D0", "U+4F9B">>, <<"U+786E", "U+4FDD">>, <<"U+5141", "U+8BB8">>>>

\* the "elif in_functional_section" branch: the text appended for one line.
\* Each of the three ways out of the branch appends.
FunctionalContent(line) ==
  LET c0 == Strip(line)
      c1 == IF NumberedPrefix(c0) > 0 THEN Strip(From(c0, NumberedPrefix(c0) + 1))
            ELSE c0
      c2 == IF At(c1, 1) \in BulletChars THEN Strip(From(c1, 2)) ELSE c1
      c3 == Strip(DropChars(c2, DecorationsAndSymbols))
      c4 == Strip(DropChars(Strip(DropChars(c3, Decorations)), Decorations))
  IN IF c3 # <<>> /\ 3 < Len(c3) /\ Len(c3) < 100 /\ ContainsAny(c3, business_verbs)
     THEN c3
     ELSE IF c4 # <<>> /\ Len(c4) > 3 /\ At(c4, Len(c4)) \notin Colons
     THEN c4
     ELSE IF StartsWith(c4, <<"-">>) THEN Strip(From(c4, 2))
     ELSE c4

\* the for loop of _extract_functional_reqs from line i on
RECURSIVE FunctionalScan(_, _, _, _)
FunctionalScan(lines, i, in_functional_section, functional_reqs) ==
  IF i > Len(lines) THEN functional_reqs
  ELSE LET line == CleanLine(lines[i])
       IN IF line = <<>>
          THEN FunctionalScan(lines, i + 1, in_functional_section, functional_reqs)
          ELSE IF ContainsAny(CleanedLine(line), title_patterns)
          THEN FunctionalScan(lines, i + 1, TRUE, functional_reqs)
          ELSE IF ContainsAny(CleanedLine(line), exit_patterns)
          THEN functional_reqs
          ELSE IF in_functional_section
          THEN FunctionalScan(lines, i + 1, TRUE,
                              Append(functional_reqs, FunctionalContent(line)))
          ELSE FunctionalScan(lines, i + 1, FALSE, functional_reqs)

\* _extract_functional_reqs, as a list of texts
extract_functional_reqs(message) ==
  IF message = <<>> THEN <<>>
  ELSE LET functional_reqs == FunctionalScan(Lines(message), 1, FALSE, <<>>)
       IN IF functional_reqs = <<>> THEN <<T_need_functional>> ELSE functional_reqs

\* the "elif in_..._section" branch shared by the three other scanners: the
\* content of one line, <<>> when the line adds nothing
BulletStarts == <<<<"-">>, <<"*">>, <<"U+2022">>>>
NumberSeparators == <<".", "U+3001", "U+FF09", ")", "]">>

\* "for sep in [...]: if sep in line: content = line.split(sep, 1)[1]; break"
RECURSIVE AfterFirstSeparator(_, _)
AfterFirstSeparator(line, seps) ==
  IF seps = <<>> THEN line
  ELSE IF Contains(line, <<Head(seps)>>)
       THEN From(line, Find(line, <<Head(seps)>>) + 1)
       ELSE AfterFirstSeparator(line, Tail(seps))

SectionContent(line, prefixes) ==
  LET c1 == IF StartsWithAny(line, BulletStarts) THEN Strip(From(line, 2))
            ELSE IF \E k \in 1..Min(2, Len(line)) : line[k] \in Digit
                 THEN AfterFirstSeparator(line, NumberSeparators)
            ELSE line
      c2 == Strip(c1)
  IN IF c2 # <<>> /\ ~StartsWithAny(StrLower(c2), [k \in DOMAIN prefixes |-> StrLower(prefixes[k])])
     THEN IF StartsWith(c2, <<"-">>) THEN <<Strip(From(c2, 2))>> ELSE <<c2>>
     ELSE <<>>

\* the for loop of the three scanners from line i on; exits(line) is the
\* elif that breaks
RECURSIVE SectionScan(_, _, _, _, _, _, _)
SectionScan(exits(_), lines, i, in_section, found, enter_markers, prefixes) ==
  IF i > Len(lines) THEN found
  ELSE LET line == CleanLine(lines[i])
       IN IF line = <<>>
          THEN SectionScan(exits, lines, i + 1, in_section, found, enter_markers, prefixes)
          ELSE IF ContainsAny(StrLower(line), enter_markers)
          THEN SectionScan(exits, lines, i + 1, TRUE, found, enter_markers, prefixes)
          ELSE IF exits(line)
          THEN found
          ELSE IF in_section
          THEN SectionScan(exits, lines, i + 1, TRUE,
                           found \o SectionContent(line, prefixes),
                           enter_markers, prefixes)
          ELSE SectionScan(exits, lines, i + 1, FALSE, found, enter_markers, prefixes)

\* the heading markers of the three scanners
non_functional_markers ==
  <<<<"2", ".", " ", "U+975E", "U+529F", "U+80FD", "U+9700", "U+6C42">>, <<"U+975E", "U+529F", "U+80FD", "U+9700", "U+6C42", ":">>, <<"U+975E", "U+529F", "U+80FD", "U+9700", "U+6C42", "U+FF1A">>, <<"#", "#", "#", " ", "2", ".", " ", "U+975E", "U+529F", "U+80FD", "U+9700", "U+6C42">>>>
scenario_markers ==
  <<<<"3", ".", " ", "U+6D4B", "U+8BD5", "U+573A", "U+666F">>, <<"U+6D4B", "U+8BD5", "U+573A", "U+666F", ":">>, <<"U+6D4B", "U+8BD5", "U+573A", "U+666F", "U+FF1A">>, <<"#", "#", "#", " ", "3", ".", " ", "U+6D4B", "U+8BD5", "U+573A", "U+666F">>>>
risk_markers ==
  <<<<"4", ".", " ", "U+98CE", "U+9669", "U+9886", "U+57DF">>, <<"U+98CE", "U+9669", "U+9886", "U+57DF", ":">>, <<"U+98CE", "U+9669", "U+9886", "U+57DF", "U+FF1A">>, <<"#", "#", "#", " ", "4", ".", " ", "U+98CE", "U+9669", "U+9886", "U+57DF">>>>
non_functional_prefixes ==
  <<<<"2", ".">>, <<"U+4E8C", "U+3001">>, W_non_functional_req, <<"U+9700", "U+6C42">>, <<"U+8981", "U+6C42">>, <<"*", "*">>, <<"#">>>>
scenario_prefixes ==
  <<<<"3", ".">>, <<"U+4E09", "U+3001">>, W_test_scenario, <<"U+573A", "U+666F">>, <<"*", "*">>, <<"#">>>>
risk_prefixes ==
  <<<<"4", ".">>, <<"U+56DB", "U+3001">>, W_risk_area, <<"U+98CE", "U+9669">>, <<"*", "*">>, <<"#">>>>

\* an exit test that never breaks
Exit_never(line) == FALSE

NonFunctionalExit(line) == ContainsAny(StrLower(line), scenario_markers)
ScenarioExit(line) == ContainsAny(StrLower(line), risk_markers)
RiskExit(line) == StartsWith(line, <<"5", ".">>) \/ Strip(line) = <<>>

\* _extract_non_functional_reqs, as a list of texts
extract_non_functional_reqs(message) ==
  IF message = <<>> THEN <<>>
  ELSE SectionScan(NonFunctionalExit, Lines(message), 1, FALSE, <<>>,
                   non_functional_markers, non_functional_prefixes)

\* _extract_test_scenarios, as a list of values
extract_test_scenarios(message) ==
  IF message = <<>> THEN <<>>
  ELSE LET scenario_descriptions ==
             SectionScan(ScenarioExit, Lines(message), 1, FALSE, <<>>,
                         scenario_markers, scenario_prefixes)
       IN IF scenario_descriptions = <<>> THEN <<DefaultScenario>>
          ELSE [i \in DOMAIN scenario_descriptions |->
                  TestScenario(JStr(ScenarioId(i)), JStr(scenario_descriptions[i]),
                               JList(<<>>))]

\* _extract_risk_areas, as a list of texts
extract_risk_areas(message) ==
  IF message = <<>> THEN <<>>
  ELSE SectionScan(RiskExit, Lines(message), 1, FALSE, <<>>,
                   risk_markers, risk_prefixes)

\* the dict analyze builds from the four scanners
ExtractSections(response_str) ==
  Record(StrList(extract_functional_reqs(response_str)),
         StrList(extract_non_functional_reqs(response_str)),
         JList(extract_test_scenarios(response_str)),
         StrList(extract_risk_areas(response_str)))

(***************************************************************************)
(* The texts the model is run on.  A response is drawn from five families: *)
(* a payload (the four fields written as JSON in some layout), prose with  *)
(* section headings and bullet lines, the same with the sections in the    *)
(* reverse order, label lines, and blank text.  given records what the     *)
(* text was made from.                                                     *)
(***************************************************************************)
\* the most elements written into one list field, the most scenario entries
\* of a payload and the most label lines of one field
MaxItems == 2
MaxScenarios == 2
MaxLabelLines == 2

\* the texts of the list elements
ItemPool == <<<<"a", "b", "c">>, <<"g", "h", "i">>, <<"d", "e", " ", "f">>, <<"j", "k">>>>
\* the texts that follow a payload
TailPool == <<<<SP, "o", "k">>, <<"x", "}">>, <<"}", "{", "{", "}">>>>
ScenarioPool == <<<<"s", "a">>, <<"s", "b">>, <<"s", "c">>, <<"s", "d">>>>
\* ying zhi chi deng lu: shall support login; dao chu bao biao: report export
\* (no business verb); yun xu xiu gai mi ma: allows changing the password
FunctionalPool == <<<<"U+5E94", "U+652F", "U+6301", "U+767B", "U+5F55">>, <<"U+5BFC", "U+51FA", "U+62A5", "U+8868">>, <<"U+5141", "U+8BB8", "U+4FEE", "U+6539", "U+5BC6", "U+7801">>, <<"U+63D0", "U+4F9B", "U+641C", "U+7D22">>>>
\* response within 2 seconds; friendly interface; stable operation
NonFunctionalPool == <<<<"U+54CD", "U+5E94", "U+65F6", "U+95F4", "U+5C0F", "U+4E8E", "2", "U+79D2">>, <<"U+754C", "U+9762", "U+53CB", "U+597D">>, <<"U+8FD0", "U+884C", "U+7A33", "U+5B9A">>, <<"U+6613", "U+4E8E", "U+7EF4", "U+62A4">>>>
\* login succeeds; wrong password; account locked
ScenarioLinePool == <<<<"U+767B", "U+5F55", "U+6210", "U+529F">>, <<"U+5BC6", "U+7801", "U+9519", "U+8BEF">>, <<"U+8D26", "U+53F7", "U+9501", "U+5B9A">>, <<"U+7F51", "U+7EDC", "U+4E2D", "U+65AD">>>>
\* data leak; performance drop; service outage
RiskPool == <<<<"U+6570", "U+636E", "U+6CC4", "U+9732">>, <<"U+6027", "U+80FD", "U+4E0B", "U+964D">>, <<"U+670D", "U+52A1", "U+4E2D", "U+65AD">>, <<"U+6743", "U+9650", "U+6EE5", "U+7528">>>>

Prefix(pool, n) == SubSeq(pool, 1, n)

\* what a response was made from: the elements of the four fields, the ids
\* of the scenario entries of a payload (0 for an entry that omits its id),
\* the numbers of label lines of the four fields, and the layout
Given(kind, fr, nfr, scen, ra, ids, lines, layout) ==
  [kind |-> kind, fr |-> fr, nfr |-> nfr, scen |-> scen, ra |-> ra,
   ids |-> ids, lines |-> lines, layout |-> layout]
Layout(sep, quoted, close, fence, shape, tail) ==
  [sep |-> sep, quoted |-> quoted, close |-> close, fence |-> fence,
   shape |-> shape, tail |-> tail]
NoLayout == Layout("", FALSE, FALSE, FALSE, "", <<>>)
NoGiven == Given("none", <<>>, <<>>, <<>>, <<>>, <<>>, <<>>, NoLayout)

\* a string and a list of strings as written in a payload, quoted or bare
RenderStr(text, quoted) == IF quoted THEN Quoted(text) ELSE text
RenderList(texts, quoted) ==
  <<"[">> \o Join([i \in DOMAIN texts |-> RenderStr(texts[i], quoted)], <<",", SP>>)
  \o <<"]">>
RenderMember(key, value, quoted) == RenderStr(key, quoted) \o <<":", SP>> \o value

\* a scenario entry: id is 0 for an entry that omits its id, else the number
\* of its id
RenderScenario(id, description, quoted) ==
  <<"{">>
  \o (IF id = 0 THEN <<>>
      ELSE RenderMember(K_id, RenderStr(ScenarioId(id), quoted), quoted) \o <<",", SP>>)
  \o RenderMember(K_description, RenderStr(description, quoted), quoted)
  \o <<",", SP>>
  \o RenderMember(K_test_cases, <<"[", "]">>, quoted)
  \o <<"}">>
RenderScenarios(ids, scen, quoted) ==
  <<"[">>
  \o Join([i \in DOMAIN scen |-> RenderScenario(ids[i], scen[i], quoted)],
          <<",", SP>>)
  \o <<"]">>

\* the payload of given g.  shape tells how functional_requirements is
\* written: "list", "string" (a string in place of the list), "absent", or
\* "alone" (a list, and the only member); tail is the text that follows the
\* payload
RenderPayload(g) ==
  LET q == g.layout.quoted
      first == IF g.layout.shape = "absent" THEN <<>>
               ELSE <<RenderMember(K_functional_requirements,
                                   IF g.layout.shape = "string"
                                   THEN RenderStr(ItemPool[1], q)
                                   ELSE RenderList(g.fr, q), q)>>
      rest ==
        <<RenderMember(K_non_functional_requirements, RenderList(g.nfr, q), q),
          RenderMember(K_test_scenarios, RenderScenarios(g.ids, g.scen, q), q),
          RenderMember(K_risk_areas, RenderList(g.ra, q), q)>>
      members == IF g.layout.shape = "alone" THEN first ELSE first \o rest
      nl == IF g.layout.sep = "lines" THEN <<NL>> ELSE <<>>
      between == IF g.layout.sep = "lines" THEN <<",", NL>> ELSE <<",", SP>>
      body == <<"{">> \o nl \o Join(members, between) \o nl
              \o (IF g.layout.close THEN <<"}">> ELSE <<>>)
  IN IF g.layout.fence THEN FenceJson \o <<NL>> \o body \o <<NL>> \o Fence
     ELSE body \o g.layout.tail

\* prose: a heading line (layout.sep "colon": the word and a colon; "number":
\* a number and the word) and one bullet line per element, for each section
HeadingLine(number, word, style) ==
  IF style = "colon" THEN word \o <<":">> ELSE <<number, ".", SP>> \o word
BulletLines(texts) == [i \in DOMAIN texts |-> <<"-", SP>> \o texts[i]]
RenderProse(g) ==
  Join(<<HeadingLine("1", W_functional_req, g.layout.sep)>> \o BulletLines(g.fr)
       \o <<HeadingLine("2", W_non_functional_req, g.layout.sep)>> \o BulletLines(g.nfr)
       \o <<HeadingLine("3", W_test_scenario, g.layout.sep)>> \o BulletLines(g.scen)
       \o <<HeadingLine("4", W_risk_area, g.layout.sep)>> \o BulletLines(g.ra),
       <<NL>>)

\* prose with the sections in the reverse order, after a line "5. other"
W_other == <<"U+5176", "U+4ED6">>                                     \* qi ta: other
RenderReversed(g) ==
  Join(<<HeadingLine("5", W_other, "number")>>
       \o <<HeadingLine("4", W_risk_area, g.layout.sep)>> \o BulletLines(g.ra)
       \o <<HeadingLine("3", W_test_scenario, g.layout.sep)>> \o BulletLines(g.scen)
       \o <<HeadingLine("2", W_non_functional_req, g.layout.sep)>> \o BulletLines(g.nfr)
       \o <<HeadingLine("1", W_functional_req, g.layout.sep)>> \o BulletLines(g.fr),
       <<NL>>)

\* label lines: for each field, lines[k] lines "label: a, b", each holding the
\* elements of the field.  layout.fence tells whether a brace span that is no
\* payload comes first.
LabelLine(label, texts) == label \o <<":", SP>> \o Join(texts, <<",", SP>>)
LabelLines(label, texts, n) == [i \in 1..n |-> LabelLine(label, texts)]
RenderLabels(g) ==
  Join((IF g.layout.fence THEN <<<<"{", "x", "}">>>> ELSE <<>>)
       \o LabelLines(W_functional_req, g.fr, g.lines[1])
       \o LabelLines(W_performance_demand, g.nfr, g.lines[2])
       \o LabelLines(W_test_scenario, g.scen, g.lines[3])
       \o LabelLines(W_risk_point, g.ra, g.lines[4]),
       <<NL>>)

BlankTexts == <<<<>>, <<SP>>, <<SP, NL, SP>>>>

\* the text of given g
Render(g) ==
  CASE g.kind = "payload" -> RenderPayload(g)
    [] g.kind = "prose" -> RenderProse(g)
    [] g.kind = "labels" -> RenderLabels(g)
    [] g.kind = "reversed" -> RenderReversed(g)
    [] g.kind = "blank" -> g.fr[1]

\* the sequences of ids of the scenario entries of a payload
ScenarioIdLists ==
  UNION {[1..n -> 0..MaxScenarios] : n \in 0..MaxScenarios}

PayloadGivens ==
  \* every layout without a fence
  {Given("payload", Prefix(ItemPool, f), Prefix(ItemPool, 1),
         Prefix(ScenarioPool, Len(ids)), Prefix(ItemPool, 1), ids, <<>>,
         Layout(sep, quoted, close, FALSE, "list", <<>>)) :
     f \in 0..MaxItems, ids \in ScenarioIdLists, sep \in {"space", "lines"},
     quoted \in BOOLEAN, close \in BOOLEAN}
  \cup
  \* a fenced block
  {Given("payload", Prefix(ItemPool, f), Prefix(ItemPool, 1),
         Prefix(ScenarioPool, Len(ids)), Prefix(ItemPool, 1), ids, <<>>,
         Layout(sep, TRUE, TRUE, TRUE, "list", <<>>)) :
     f \in 0..MaxItems, ids \in ScenarioIdLists, sep \in {"space", "lines"}}
  \cup
  \* functional_requirements not a list, or absent
  {Given("payload", <<>>, Prefix(ItemPool, 1), Prefix(ScenarioPool, Len(ids)),
         Prefix(ItemPool, 1), ids, <<>>,
         Layout("space", TRUE, TRUE, FALSE, shape, <<>>)) :
     ids \in ScenarioIdLists, shape \in {"string", "absent"}}
  \cup
  \* text after a payload without scenario entries
  {Given("payload", Prefix(ItemPool, f), Prefix(ItemPool, 1), <<>>,
         Prefix(ItemPool, 1), <<>>, <<>>,
         Layout("space", TRUE, TRUE, FALSE, shape, TailPool[t])) :
     f \in 0..MaxItems, shape \in {"list", "alone"}, t \in DOMAIN TailPool}

ProseGivens ==
  {Given("prose", Prefix(FunctionalPool, f), Prefix(NonFunctionalPool, n),
         Prefix(ScenarioLinePool, s), Prefix(RiskPool, r), <<>>, <<>>,
         Layout(style, FALSE, FALSE, FALSE, "", <<>>)) :
     f \in 0..MaxItems, n \in 0..MaxItems, s \in 0..MaxItems, r \in 0..MaxItems,
     style \in {"colon", "number"}}

ReversedGivens ==
  {Given("reversed", Prefix(FunctionalPool, 1), Prefix(NonFunctionalPool, n),
         Prefix(ScenarioLinePool, s), Prefix(RiskPool, r), <<>>, <<>>,
         Layout(style, FALSE, FALSE, FALSE, "", <<>>)) :
     n \in 0..MaxItems, s \in 0..MaxItems, r \in 0..MaxItems,
     style \in {"colon", "number"}}

LabelGivens ==
  {Given("labels", Prefix(ItemPool, MaxItems), Prefix(ItemPool, MaxItems),
         Prefix(ItemPool, MaxItems), Prefix(ItemPool, MaxItems), <<>>,
         <<f, 1, s, 1>>, Layout("", FALSE, FALSE, braces, "", <<>>)) :
     f \in 0..1, s \in 0..MaxLabelLines, braces \in BOOLEAN}

BlankGivens ==
  {Given("blank", <<BlankTexts[i]>>, <<>>, <<>>, <<>>, <<>>, <<>>, NoLayout) :
     i \in DOMAIN BlankTexts}

Givens ==
  PayloadGivens \cup ProseGivens \cup ReversedGivens \cup LabelGivens
  \cup BlankGivens

\* doc_content: empty, blank, and a document
Documents == <<<<>>, <<SP, NL>>, <<"d", "o", "c">>>>

(***************************************************************************)
(* One invocation of analyze.  pc is the step the invocation is at:        *)
(* the steps are the stages of analyze and of _extract_json_fallback, in   *)
(* the order the code runs them.                                           *)
(***************************************************************************)
VARIABLES
  pc,                 \* the step analyze is at
  doc_content,        \* the argument of analyze
  given,              \* what the response was made from
  response_str,       \* the text of the response
  pat,                \* the locator pattern that matched, 0 for none
  candidate,          \* json_str / full_json before the repair passes
  json_str,           \* json_str / fixed_json
  candidates,         \* the texts the loops of _extract_json_fallback try
  cand_i,             \* the index of the text being tried
  structured_result,  \* structured_result
  result,             \* what analyze returned
  raised,             \* whether analyze raised
  last_analysis       \* self.last_analysis

vars == <<pc, doc_content, given, response_str, pat, candidate, json_str,
          candidates, cand_i, structured_result, result, raised, last_analysis>>

\* the variables of the extraction stages
text_vars == <<doc_content, given, response_str>>
out_vars == <<result, raised, last_analysis>>

\* __init__: last_analysis is None
Init ==
  /\ pc = "analyze"
  /\ doc_content \in {Documents[i] : i \in DOMAIN Documents}
  /\ given = NoGiven
  /\ response_str = <<>>
  /\ pat = 0
  /\ candidate = <<>>
  /\ json_str = <<>>
  /\ candidates = <<>>
  /\ cand_i = 0
  /\ structured_result = NoResult
  /\ result = NoResult
  /\ raised = FALSE
  /\ last_analysis = NoResult

\* "if not structured_result" after the JSON stages: the step that follows
AfterJson(sr) == IF sr.shape = "none" THEN "sections" ELSE "finalize"

\* analyze, up to the chat: an empty document returns the default record
Analyze ==
  /\ pc = "analyze"
  /\ IF doc_content = <<>> \/ Strip(doc_content) = <<>>
     THEN /\ result' = get_default_result
          /\ last_analysis' = get_default_result
          /\ pc' = "done"
     ELSE /\ pc' = "chat"
          /\ UNCHANGED <<result, last_analysis>>
  /\ UNCHANGED <<text_vars, pat, candidate, json_str, candidates, cand_i,
                 structured_result, raised>>

\* user_proxy.initiate_chat returns
InitiateChat ==
  /\ pc = "chat"
  /\ pc' = "respond"
  /\ UNCHANGED <<text_vars, pat, candidate, json_str, candidates, cand_i,
                 structured_result, out_vars>>

\* user_proxy.initiate_chat raises: the outer handler raises again
InitiateChatRaises ==
  /\ pc = "chat"
  /\ pc' = "done"
  /\ raised' = TRUE
  /\ UNCHANGED <<text_vars, pat, candidate, json_str, candidates, cand_i,
                 structured_result, result, last_analysis>>

\* self.agent.last_message() is falsy: _get_default_result is returned
NoResponse ==
  /\ pc = "respond"
  /\ pc' = "done"
  /\ result' = get_default_result
  /\ last_analysis' = get_default_result
  /\ UNCHANGED <<text_vars, pat, candidate, json_str, candidates, cand_i,
                 structured_result, raised>>

\* self.agent.last_message() is a dict with 'content'
LastMessage ==
  /\ pc = "respond"
  /\ \E g \in Givens :
       /\ given' = g
       /\ response_str' = Render(g)
  /\ pc' = "locate"
  /\ UNCHANGED <<doc_content, pat, candidate, json_str, candidates, cand_i,
                 structured_result, out_vars>>

\* the five searches and json_match.group(1).strip() with the fences removed
Locate ==
  /\ pc = "locate"
  /\ LET found == LocatePayload(response_str)
     IN /\ pat' = found.pat
        /\ IF found.pat = 0
           THEN /\ pc' = "sections"
                /\ UNCHANGED <<candidate, json_str>>
           ELSE /\ pc' = "repair"
                /\ candidate' = ExtractCandidate(response_str, found.m)
                /\ json_str' = ExtractCandidate(response_str, found.m)
  /\ UNCHANGED <<text_vars, candidates, cand_i, structured_result, out_vars>>

\* json_str = self._fix_json_format(json_str)
Repair ==
  /\ pc = "repair"
  /\ json_str' = fix_json_format(json_str)
  /\ pc' = "validate"
  /\ UNCHANGED <<text_vars, pat, candidate, candidates, cand_i,
                 structured_result, out_vars>>

\* "if not self._is_valid_json_format(json_str)"
Validate ==
  /\ pc = "validate"
  /\ pc' = IF is_valid_json_format(json_str) THEN "decode" ELSE "aggressive"
  /\ UNCHANGED <<text_vars, pat, candidate, json_str, candidates, cand_i,
                 structured_result, out_vars>>

\* json_str = self._fix_json_aggressive(json_str)
Aggressive ==
  /\ pc = "aggressive"
  /\ json_str' = fix_json_aggressive(json_str)
  /\ pc' = "revalidate"
  /\ UNCHANGED <<text_vars, pat, candidate, candidates, cand_i,
                 structured_result, out_vars>>

\* Revalidate without the second check: the decoding is tried on whatever
\* the aggressive pass returned
Revalidate_unchecked ==
  /\ pc = "revalidate"
  /\ pc' = "decode"
  /\ UNCHANGED <<text_vars, pat, candidate, json_str, candidates, cand_i,
                 structured_result, out_vars>>

\* the check after the aggressive pass
Revalidate ==
  /\ pc = "revalidate"
  /\ pc' = IF is_valid_json_format(json_str) THEN "decode" ELSE "json_fallback"
  /\ UNCHANGED <<text_vars, pat, candidate, json_str, candidates, cand_i,
                 structured_result, out_vars>>

\* Decode without the handler around json.loads: the exception reaches the
\* handler of the response handling, which returns the error value
Decode_unhandled ==
  /\ pc = "decode"
  /\ LET parsed_result == json_loads(json_str)
     IN IF parsed_result.ok /\ parsed_result.val.t = "dict"
        THEN /\ structured_result' = build_structured_result(parsed_result.val)
             /\ pc' = AfterJson(structured_result')
             /\ UNCHANGED result
        ELSE /\ pc' = "done"
             /\ result' = ErrorResult
             /\ UNCHANGED structured_result
  /\ UNCHANGED <<text_vars, pat, candidate, json_str, candidates, cand_i, raised,
                 last_analysis>>

\* json.loads and _build_structured_result; an exception and a value that is
\* no dict lead to _extract_json_fallback
Decode ==
  /\ pc = "decode"
  /\ LET parsed_result == json_loads(json_str)
     IN IF parsed_result.ok /\ parsed_result.val.t = "dict"
        THEN /\ structured_result' = build_structured_result(parsed_result.val)
             /\ pc' = AfterJson(structured_result')
        ELSE /\ pc' = "json_fallback"
             /\ UNCHANGED structured_result
  /\ UNCHANGED <<text_vars, pat, candidate, json_str, candidates, cand_i, out_vars>>

\* _extract_json_fallback, up to its loops: the texts to try
JsonFallback ==
  /\ pc = "json_fallback"
  /\ candidates' = FallbackCandidates(response_str)
  /\ cand_i' = 1
  /\ pc' = IF candidates' = <<>> THEN "labels" ELSE "fallback_repair"
  /\ UNCHANGED <<text_vars, pat, candidate, json_str, structured_result, out_vars>>

\* the step after the text at cand_i failed: the next text, or the labels
NextCandidate == IF cand_i < Len(candidates) THEN "fallback_repair" ELSE "labels"

\* fixed_json = self._fix_json_format(full_json)
FallbackRepair ==
  /\ pc = "fallback_repair"
  /\ candidate' = candidates[cand_i]
  /\ json_str' = fix_json_format(candidates[cand_i])
  /\ pc' = "fallback_validate"
  /\ UNCHANGED <<text_vars, pat, candidates, cand_i, structured_result, out_vars>>

\* "if not self._is_valid_json_format(fixed_json)"
FallbackValidate ==
  /\ pc = "fallback_validate"
  /\ pc' = IF is_valid_json_format(json_str) THEN "fallback_revalidate"
           ELSE "fallback_aggressive"
  /\ UNCHANGED <<text_vars, pat, candidate, json_str, candidates, cand_i,
                 structured_result, out_vars>>

\* fixed_json = self._fix_json_aggressive(fixed_json)
FallbackAggressive ==
  /\ pc = "fallback_aggressive"
  /\ json_str' = fix_json_aggressive(json_str)
  /\ pc' = "fallback_revalidate"
  /\ UNCHANGED <<text_vars, pat, candidate, candidates, cand_i,
                 structured_result, out_vars>>

\* "if self._is_valid_json_format(fixed_json)": else the loop goes on
FallbackRevalidate ==
  /\ pc = "fallback_revalidate"
  /\ IF is_valid_json_format(json_str)
     THEN /\ pc' = "fallback_decode"
          /\ UNCHANGED cand_i
     ELSE /\ pc' = NextCandidate
          /\ cand_i' = cand_i + 1
  /\ UNCHANGED <<text_vars, pat, candidate, json_str, candidates,
                 structured_result, out_vars>>

\* FallbackDecode with a loop that tries the same text again after a failure
FallbackDecode_retry ==
  /\ pc = "fallback_decode"
  /\ LET parsed_result == json_loads(json_str)
     IN IF parsed_result.ok /\ parsed_result.val.t = "dict"
        THEN /\ structured_result' = build_structured_result(parsed_result.val)
             /\ pc' = AfterJson(structured_result')
        ELSE /\ pc' = "fallback_repair"
             /\ UNCHANGED structured_result
  /\ UNCHANGED <<text_vars, pat, candidate, json_str, candidates, cand_i, out_vars>>

\* json.loads and _build_structured_result in the loop: a dict is returned,
\* an exception and a value that is no dict let the loop go on
FallbackDecode ==
  /\ pc = "fallback_decode"
  /\ LET parsed_result == json_loads(json_str)
     IN IF parsed_result.ok /\ parsed_result.val.t = "dict"
        THEN /\ structured_result' = build_structured_result(parsed_result.val)
             /\ pc' = AfterJson(structured_result')
             /\ UNCHANGED cand_i
        ELSE /\ pc' = NextCandidate
             /\ cand_i' = cand_i + 1
             /\ UNCHANGED structured_result
  /\ UNCHANGED <<text_vars, pat, candidate, json_str, candidates, out_vars>>

\* return self._extract_fallback_from_text(response_str)
Labels ==
  /\ pc = "labels"
  /\ structured_result' = extract_fallback_from_text(response_str)
  /\ pc' = AfterJson(structured_result')
  /\ UNCHANGED <<text_vars, pat, candidate, json_str, candidates, cand_i, out_vars>>

\* the four heading scanners
Sections ==
  /\ pc = "sections"
  /\ structured_result' = ExtractSections(response_str)
  /\ pc' = "finalize"
  /\ UNCHANGED <<text_vars, pat, candidate, json_str, candidates, cand_i, out_vars>>

\* _validate_analysis_result and _fill_missing_requirements
FinalizeResult ==
  /\ pc = "finalize"
  /\ structured_result' = Finalize(structured_result)
  /\ pc' = "save"
  /\ UNCHANGED <<text_vars, pat, candidate, json_str, candidates, cand_i, out_vars>>

\* save_result returns: last_analysis is set and the record returned
SaveResult ==
  /\ pc = "save"
  /\ last_analysis' = structured_result
  /\ result' = structured_result
  /\ pc' = "done"
  /\ UNCHANGED <<text_vars, pat, candidate, json_str, candidates, cand_i,
                 structured_result, raised>>

\* save_result raises: the inner handler returns {"error", "details"}
SaveResultRaises ==
  /\ pc = "save"
  /\ result' = ErrorResult
  /\ pc' = "done"
  /\ UNCHANGED <<text_vars, pat, candidate, json_str, candidates, cand_i,
                 structured_result, raised, last_analysis>>

Next ==
  \/ Analyze
  \/ InitiateChat
  \/ InitiateChatRaises
  \/ NoResponse
  \/ LastMessage
  \/ Locate
  \/ Repair
  \/ Validate
  \/ Aggressive
  \/ Revalidate
  \/ Decode
  \/ JsonFallback
  \/ FallbackRepair
  \/ FallbackValidate
  \/ FallbackAggressive
  \/ FallbackRevalidate
  \/ FallbackDecode
  \/ Labels
  \/ Sections
  \/ FinalizeResult
  \/ SaveResult
  \/ SaveResultRaises

Spec == Init /\ [][Next]_vars

\* the invocation is over
Done == pc = "done"

\* the steps in the order of the code
Steps ==
  <<"analyze", "chat", "respond", "locate", "repair", "validate", "aggressive",
    "revalidate", "decode", "json_fallback", "fallback_repair",
    "fallback_validate", "fallback_aggressive", "fallback_revalidate",
    "fallback_decode", "labels", "sections", "finalize", "save", "done">>

\* analyze is at a step of the code, and every step but the last has its
\* action above
TypeOK == pc \in {Steps[i] : i \in DOMAIN Steps}

\* the invocation goes on to another step
Proceed == ~Done /\ pc' \in {Steps[i] : i \in DOMAIN Steps} /\ pc' # pc

\* analyze is synchronous: no step of it waits or yields, so while the
\* invocation is not over the thread that runs it takes the next step
FairSpec == Spec /\ WF_pc(Proceed)

(***************************************************************************)
(* The text stages as one function: what analyze returns for a response    *)
(* text when save_result returns.                                          *)
(***************************************************************************)
\* the repair passes, the checks and the decoding of one text: [ok, val]
DecodeCandidate(text) ==
  LET fixed == fix_json_format(text)
      final == IF is_valid_json_format(fixed) THEN fixed
               ELSE fix_json_aggressive(fixed)
      parsed_result == json_loads(final)
  IN IF is_valid_json_format(final) /\ parsed_result.ok
        /\ parsed_result.val.t = "dict"
     THEN [ok |-> TRUE, val |-> build_structured_result(parsed_result.val)]
     ELSE [ok |-> FALSE, val |-> NoResult]

\* the loops of _extract_json_fallback from the text at i on
RECURSIVE FallbackFrom(_, _, _)
FallbackFrom(response, texts, i) ==
  IF i > Len(texts) THEN extract_fallback_from_text(response)
  ELSE LET r == DecodeCandidate(texts[i])
       IN IF r.ok THEN r.val ELSE FallbackFrom(response, texts, i + 1)

extract_json_fallback(response) ==
  FallbackFrom(response, FallbackCandidates(response), 1)

AnalyzeText(response) ==
  LET found == LocatePayload(response)
      r == DecodeCandidate(ExtractCandidate(response, found.m))
  IN Finalize(IF found.pat = 0 THEN ExtractSections(response)
              ELSE IF r.ok THEN r.val
              ELSE extract_json_fallback(response))

\* the steps compute AnalyzeText
AnalyzeTextAgrees ==
  pc = "save" => structured_result = AnalyzeText(response_str)

(***************************************************************************)
(* Properties                                                              *)
(***************************************************************************)
\* analyze returned a record for a response text
Returned == pc = "done" /\ given.kind # "none" /\ result.shape = "record"

\* the four fields of a record
Fields(r) ==
  <<r.functional_requirements, r.non_functional_requirements,
    r.test_scenarios, r.risk_areas>>

\* C1: for every response text, each of the four fields of the returned
\* record is a list that is not empty
C1_AllFieldsNonEmpty ==
  Returned =>
    \A i \in DOMAIN Fields(result) :
      Fields(result)[i].t = "list" /\ Fields(result)[i].v # <<>>

\* the id of an element of test_scenarios, None when it has none
IdOf(scenario) ==
  CASE scenario.t = "TestScenario" -> scenario.v.id
    [] scenario.t = "dict" -> DictGet(scenario, K_id, JNone)
    [] OTHER -> JNone

\* TS and three digits
IsScenarioId(id) ==
  /\ id.t = "str"
  /\ Len(id.v) = 5
  /\ id.v[1] = "T" /\ id.v[2] = "S"
  /\ \A k \in 3..5 : id.v[k] \in Digit

\* C2: in every returned record each element of test_scenarios has an id of
\* the form TS and three digits, and no two elements have the same id
C2_ScenarioIdsUnique ==
  Returned =>
    LET ts == result.test_scenarios.v
    IN /\ \A i \in DOMAIN ts : IsScenarioId(IdOf(ts[i]))
       /\ \A i, j \in DOMAIN ts : i # j => IdOf(ts[i]) # IdOf(ts[j])

Tiers ==
  <<"analyze", "chat", "respond", "locate", "repair", "validate", "aggressive",
    "revalidate", "decode", "json_fallback", "labels", "sections", "finalize",
    "save", "done">>

\* the stage a step belongs to
TierOf(p) ==
  CASE p = "fallback_repair" -> "repair"
    [] p = "fallback_validate" -> "validate"
    [] p = "fallback_aggressive" -> "aggressive"
    [] p = "fallback_revalidate" -> "revalidate"
    [] p = "fallback_decode" -> "decode"
    [] OTHER -> p

Position(seq, x) == CHOOSE i \in DOMAIN seq : seq[i] = x

FullyDefaulted(r) ==
  /\ \A f \in {r.functional_requirements, r.non_functional_requirements,
               r.risk_areas} :
       f.t = "list" /\ Len(f.v) = 1 /\ f.v[1].t = "str"
  /\ r.test_scenarios.t = "list"
  /\ Len(r.test_scenarios.v) = 1
  /\ IdOf(r.test_scenarios.v[1]) = JStr(ScenarioId(1))

\* C5: for an empty or blank document, and for an empty or blank response,
\* the returned record is the fully defaulted one
C5_BlankGivesDefaults ==
  /\ pc = "done" /\ given.kind = "none" /\ result.shape = "record"
       => FullyDefaulted(result)
  /\ Returned /\ Strip(response_str) = <<>> => FullyDefaulted(result)

\* a payload written as valid JSON, all four fields holding elements and
\* every scenario entry its own id
WellFormed(g) ==
  /\ g.kind = "payload"
  /\ g.layout.quoted /\ g.layout.close
  /\ g.layout.shape = "list" /\ g.layout.tail = <<>>
  /\ g.fr # <<>> /\ g.nfr # <<>> /\ g.ids # <<>> /\ g.ra # <<>>
  /\ \A i \in DOMAIN g.ids : g.ids[i] # 0
  /\ \A i, j \in DOMAIN g.ids : i # j => g.ids[i] # g.ids[j]

\* the scenarios a payload holds
SourceScenarios(g) ==
  JList([i \in DOMAIN g.ids |->
           TestScenario(JStr(ScenarioId(g.ids[i])), JStr(g.scen[i]), JList(<<>>))])

\* C6: for a well-formed payload, on one line or over several lines, fenced
\* or not, each list of the returned record equals the list of the payload
C6_RoundTrip ==
  Returned /\ WellFormed(given) =>
    /\ result.functional_requirements = StrList(given.fr)
    /\ result.non_functional_requirements = StrList(given.nfr)
    /\ result.test_scenarios = SourceScenarios(given)
    /\ result.risk_areas = StrList(given.ra)

\* C7: when the text handed to the repair passes decodes to an object, it
\* decodes to the same object after the conservative pass, and after the
\* conservative pass followed by the aggressive pass
C7_RepairKeepsValue ==
  pc \in {"validate", "fallback_validate"} /\ json_loads(candidate).ok
    /\ json_loads(candidate).val.t = "dict" =>
    /\ json_loads(fix_json_format(candidate)) = json_loads(candidate)
    /\ json_loads(fix_json_aggressive(fix_json_format(candidate)))
         = json_loads(candidate)

\* given g with the closing brace of the payload written
Closed(g) == [g EXCEPT !.layout.close = TRUE]

\* C8: for a payload that lacks only its closing brace the payload is
\* located, and the returned record is the record returned for the same
\* payload with the closing brace
C8_MissingBraceRecovered ==
  Returned /\ given.kind = "payload" /\ ~given.layout.close
    /\ given.layout.quoted /\ given.layout.sep = "space" =>
    /\ pat # 0
    /\ result = AnalyzeText(Render(Closed(given)))

\* C9: for a payload on one line whose keys and array elements are bare, the
\* lists of the returned record hold the elements of the payload in order
C9_BareElementsRecovered ==
  Returned /\ given.kind = "payload" /\ ~given.layout.quoted
    /\ given.layout.close /\ given.layout.sep = "space" =>
    /\ result.functional_requirements = StrList(given.fr)
    /\ result.non_functional_requirements = StrList(given.nfr)
    /\ result.risk_areas = StrList(given.ra)

\* the scenarios of the bullet lines of a scenario section
LineScenarios(texts) ==
  JList([i \in DOMAIN texts |->
           TestScenario(JStr(ScenarioId(i)), JStr(texts[i]), JList(<<>>))])

\* C10: for prose with the four headings in order and bullet lines under
\* each, every list of the returned record holds the bullet lines of its
\* section, without the bullets and in order, and the scenarios have the ids
\* TS001, TS002, ... in line order
C10_OneEntryPerBullet ==
  Returned /\ given.kind = "prose"
    /\ given.fr # <<>> /\ given.nfr # <<>> /\ given.scen # <<>> /\ given.ra # <<>> =>
    /\ result.functional_requirements = StrList(given.fr)
    /\ result.non_functional_requirements = StrList(given.nfr)
    /\ result.test_scenarios = LineScenarios(given.scen)
    /\ result.risk_areas = StrList(given.ra)

\* the description of an element of test_scenarios, None when it has none
DescriptionOf(scenario) ==
  CASE scenario.t = "TestScenario" -> scenario.v.description
    [] scenario.t = "dict" -> DictGet(scenario, K_description, JNone)
    [] OTHER -> JNone

\* label lines only: one "label: a, b" line for each field and no brace
OneLabelLineEach(g) ==
  g.kind = "labels" /\ ~g.layout.fence /\ g.lines = <<1, 1, 1, 1>>

\* C11: for a text that holds one label line for each field, no section
\* content and no brace, each list of the returned record holds the pieces
\* of the value of its label line, split at the list separators, in order
C11_LabelsPopulateFields ==
  Returned /\ OneLabelLineEach(given) =>
    /\ result.functional_requirements = StrList(given.fr)
    /\ result.non_functional_requirements = StrList(given.nfr)
    /\ result.test_scenarios.t = "list"
    /\ [i \in DOMAIN result.test_scenarios.v |->
          DescriptionOf(result.test_scenarios.v[i])]
         = [i \in DOMAIN given.scen |-> JStr(given.scen[i])]
    /\ result.risk_areas = StrList(given.ra)

(***************************************************************************)
(* Several invocations of analyze on one agent, run by threads.  Each      *)
(* invocation has its own locals; self.last_analysis is shared.  In this   *)
(* specification pc, structured_result, result and raised are functions of *)
(* the invocation, the text stages of one invocation are one step (they    *)
(* read and write locals only), and the steps that follow are the          *)
(* statements of lines 249-255, between which the threads interleave.      *)
(***************************************************************************)
\* the number of invocations
MaxInvocations == 2
Invocations == 1..MaxInvocations

\* the responses of the concurrent invocations
ConcurrentGivens == BlankGivens

\* the variables of the text stages, which the invocations do not share
local_vars ==
  <<doc_content, given, response_str, pat, candidate, json_str, candidates, cand_i>>

ConcurrentInit ==
  /\ pc = [i \in Invocations |-> "analyze"]
  /\ structured_result = [i \in Invocations |-> NoResult]
  /\ result = [i \in Invocations |-> NoResult]
  /\ raised = [i \in Invocations |-> FALSE]
  /\ last_analysis = NoResult
  /\ doc_content = <<>>
  /\ given = NoGiven
  /\ response_str = <<>>
  /\ pat = 0
  /\ candidate = <<>>
  /\ json_str = <<>>
  /\ candidates = <<>>
  /\ cand_i = 0

\* analyze(doc_content) up to the chat: for an empty document default_result
\* is built (lines 97-108)
EnterAnalyze(i) ==
  /\ pc[i] = "analyze"
  /\ \E doc \in {Documents[k] : k \in DOMAIN Documents} :
       IF doc = <<>> \/ Strip(doc) = <<>>
       THEN /\ structured_result' = [structured_result EXCEPT ![i] = get_default_result]
            /\ pc' = [pc EXCEPT ![i] = "store"]
       ELSE /\ pc' = [pc EXCEPT ![i] = "chat"]
            /\ UNCHANGED structured_result
  /\ UNCHANGED <<local_vars, result, raised, last_analysis>>

\* user_proxy.initiate_chat returns
ChatReturns(i) ==
  /\ pc[i] = "chat"
  /\ pc' = [pc EXCEPT ![i] = "respond"]
  /\ UNCHANGED <<local_vars, structured_result, result, raised, last_analysis>>

\* user_proxy.initiate_chat raises: analyze raises
ChatRaises(i) ==
  /\ pc[i] = "chat"
  /\ pc' = [pc EXCEPT ![i] = "done"]
  /\ raised' = [raised EXCEPT ![i] = TRUE]
  /\ UNCHANGED <<local_vars, structured_result, result, last_analysis>>

\* no response: _get_default_result builds default_result (lines 566-577)
EmptyResponse(i) ==
  /\ pc[i] = "respond"
  /\ structured_result' = [structured_result EXCEPT ![i] = get_default_result]
  /\ pc' = [pc EXCEPT ![i] = "store"]
  /\ UNCHANGED <<local_vars, result, raised, last_analysis>>

\* a response: the text stages, up to the finalizer
TextStages(i) ==
  /\ pc[i] = "respond"
  /\ \E g \in ConcurrentGivens :
       structured_result' = [structured_result EXCEPT ![i] = AnalyzeText(Render(g))]
  /\ pc' = [pc EXCEPT ![i] = "save"]
  /\ UNCHANGED <<local_vars, result, raised, last_analysis>>

\* self.agent_io.save_result(...) returns
SaveReturns(i) ==
  /\ pc[i] = "save"
  /\ pc' = [pc EXCEPT ![i] = "store"]
  /\ UNCHANGED <<local_vars, structured_result, result, raised, last_analysis>>

\* self.agent_io.save_result(...) raises: the error value is returned
SaveRaises(i) ==
  /\ pc[i] = "save"
  /\ result' = [result EXCEPT ![i] = ErrorResult]
  /\ pc' = [pc EXCEPT ![i] = "done"]
  /\ UNCHANGED <<local_vars, structured_result, raised, last_analysis>>

\* self.last_analysis = structured_result (= default_result)
StoreLastAnalysis(i) ==
  /\ pc[i] = "store"
  /\ last_analysis' = structured_result[i]
  /\ pc' = [pc EXCEPT ![i] = "return"]
  /\ UNCHANGED <<local_vars, structured_result, result, raised>>

\* return structured_result (default_result)
Return(i) ==
  /\ pc[i] = "return"
  /\ result' = [result EXCEPT ![i] = structured_result[i]]
  /\ pc' = [pc EXCEPT ![i] = "done"]
  /\ UNCHANGED <<local_vars, structured_result, raised, last_analysis>>

ConcurrentNext ==
  \E i \in Invocations :
    \/ EnterAnalyze(i)
    \/ ChatReturns(i)
    \/ ChatRaises(i)
    \/ EmptyResponse(i)
    \/ TextStages(i)
    \/ SaveReturns(i)
    \/ SaveRaises(i)
    \/ StoreLastAnalysis(i)
    \/ Return(i)

ConcurrentSpec == ConcurrentInit /\ [][ConcurrentNext]_vars

\* invocation i returns a value at this step
Returns(i) == pc[i] # "done" /\ pc'[i] = "done" /\ ~raised'[i]

C13_FilledScenarioIsDefault ==
  [][pc = "finalize"
       /\ structured_result'.test_scenarios # structured_result.test_scenarios
     => LET written == structured_result'.test_scenarios
        IN /\ written.t = "list" /\ Len(written.v) = 1
           /\ written.v[1].t = "TestScenario"
           /\ written.v[1].v.id = JStr(ScenarioId(1))
           /\ written.v[1].v.description.t = "str"
           /\ written.v[1].v.test_cases = JList(<<>>)]_vars

\* the three fields that hold lists of texts
TextFields(r) ==
  <<r.functional_requirements, r.non_functional_requirements, r.risk_areas>>

\* C14: a value that is no list, decoded for functional_requirements,
\* non_functional_requirements or risk_areas, is in neither the record the
\* builder makes nor the record returned: both hold a list in each of the
\* three fields
C14_NonListAbsorbed ==
  /\ pc = "finalize" =>
       \A i \in DOMAIN TextFields(structured_result) :
         TextFields(structured_result)[i].t = "list"
  /\ Returned =>
       \A i \in DOMAIN TextFields(result) : TextFields(result)[i].t = "list"

\* the five searches in the order of the code
Searches(s) ==
  <<SearchFenced(s), SearchKeyed(s), SearchBraces(s), SearchFlat(s, 2),
    SearchFlat(s, 0)>>

\* the steps that handle a located payload
PayloadSteps ==
  {"repair", "validate", "aggressive", "revalidate", "decode", "json_fallback",
   "fallback_repair", "fallback_validate", "fallback_aggressive",
   "fallback_revalidate", "fallback_decode", "labels"}

\* C15: the locator takes the first of the five patterns, in the order
\* fenced, keyed, brace span, flat with quotes, flat, that matches: the text
\* handed to the repair is group 1 of that match, and when no pattern
\* matches the heading scanners come next and no step that handles a payload
\* is ever taken
C15_LocatorPriority ==
  [][/\ pc = "locate" =>
          LET ms == Searches(response_str)
              first == Least({k \in DOMAIN ms : ms[k] # NoMatch})
          IN /\ pat' = first
             /\ first # 0 =>
                  /\ pc' = "repair"
                  /\ json_str' = ExtractCandidate(response_str, ms[first])
             /\ first = 0 => pc' = "sections"
     /\ pc' \in PayloadSteps => pat' # 0]_vars

\* the third pattern matched after the first two did not
C15_Witness == pc = "repair" /\ pat = 3

\* json.loads(text) returns a dict
Decodes(text) == json_loads(text).ok /\ json_loads(text).val.t = "dict"

\* C16: on a located candidate the conservative pass runs first; the
\* aggressive pass runs exactly when the check rejects the result of the
\* conservative pass; the decoding is tried exactly on a text the check
\* accepted; a rejection after the aggressive pass and a failed decoding
\* after either pass both lead to _extract_json_fallback, which is handed the
\* response and nothing of the failed candidate
C16_RepairEscalation ==
  [][/\ pc = "locate" /\ pat' # 0 => pc' = "repair"
     /\ pc' = "repair" => pc = "locate" /\ json_str' = candidate'
     /\ pc = "repair" => pc' = "validate" /\ json_str' = fix_json_format(candidate)
     /\ pc' = "aggressive" <=> pc = "validate" /\ ~is_valid_json_format(json_str)
     /\ pc = "aggressive" =>
          pc' = "revalidate" /\ json_str' = fix_json_aggressive(json_str)
     /\ pc' = "decode" <=>
          pc \in {"validate", "revalidate"} /\ is_valid_json_format(json_str)
     /\ pc' = "decode" => json_str' = json_str
     /\ pc' = "json_fallback" <=>
          \/ pc = "revalidate" /\ ~is_valid_json_format(json_str)
          \/ pc = "decode" /\ ~Decodes(json_str)
     /\ pc' = "json_fallback" => UNCHANGED <<response_str, structured_result>>
     /\ pc \in {"fallback_decode", "fallback_revalidate", "json_fallback", "labels"}
          /\ pc' \in {"finalize", "sections"}
          => structured_result' = extract_json_fallback(response_str)]_vars

\* the decoding failed on a text that the check accepted only after the
\* aggressive pass
C16_Witness ==
  /\ pc = "json_fallback"
  /\ is_valid_json_format(json_str)
  /\ ~is_valid_json_format(fix_json_format(candidate))

\* a field of the heading scanners where it holds elements, else the field
\* of the label extractor
FirstPopulated(section_field, label_field) ==
  IF section_field.v # <<>> THEN section_field ELSE label_field

\* the record of the text fallback as claimed: the heading scanners first,
\* the label extractor for the fields they left empty
SectionsThenLabels(response) ==
  LET s == ExtractSections(response)
      l == extract_fallback_from_text(response)
  IN Record(FirstPopulated(s.functional_requirements, l.functional_requirements),
            FirstPopulated(s.non_functional_requirements, l.non_functional_requirements),
            FirstPopulated(s.test_scenarios, l.test_scenarios),
            FirstPopulated(s.risk_areas, l.risk_areas))

\* C17: in the text fallback the heading scanners run first, the label
\* extractor runs after them and only fills the fields they left empty, and
\* the finalizer runs after both
C17_SectionsBeforeLabels ==
  [][/\ pc' = "labels" => pc = "sections"
     /\ pc \in {"labels", "sections"} /\ pc' = "finalize"
          => structured_result' = SectionsThenLabels(response_str)]_vars

\* the number of characters c among the first k of s
CountOf(s, c, k) == Cardinality({i \in 1..k : s[i] = c})

\* the condition of C18 on a text
BalancedObjectText(text) ==
  LET t == Strip(text)
  IN /\ t # <<>> /\ t[1] = "{" /\ t[Len(t)] = "}"
     /\ \E i \in DOMAIN t : t[i] = QT
     /\ \A k \in 0..Len(t) : CountOf(t, "{", k) >= CountOf(t, "}", k)
     /\ CountOf(t, "{", Len(t)) = CountOf(t, "}", Len(t))

\* C18: _is_valid_json_format returns True exactly for a text that, stripped,
\* starts with "{", ends with "}", holds a double quote, and whose count of
\* "{" less "}" is negative after no character and zero at the end
C18_ValidatorExact ==
  /\ pc = "locate" =>
       (is_valid_json_format(response_str) <=> BalancedObjectText(response_str))
  /\ pc \in {"validate", "revalidate", "fallback_validate", "fallback_revalidate"} =>
       (is_valid_json_format(json_str) <=> BalancedObjectText(json_str))

\* the check rejects a text with the braces at both ends, a quote and as many
\* "{" as "}": the count is negative on the way
C18_Witness ==
  LET t == Strip(json_str)
  IN /\ pc = "aggressive"
     /\ StartsWith(t, <<"{">>) /\ EndsWith(t, <<"}">>) /\ Contains(t, <<QT>>)
     /\ CountOf(t, "{", Len(t)) = CountOf(t, "}", Len(t))

\* the test of C19 on the text of a line
PassesFilter(content) ==
  3 < Len(content) /\ Len(content) < 100 /\ ContainsAny(content, business_verbs)

\* C19: a bullet line of the functional section whose text fails the test
\* (more than 3 and fewer than 100 characters, and a business verb in it)
\* adds nothing to functional_requirements
C19_FilteredLinesAddNothing ==
  Returned /\ given.kind = "prose" /\ result.functional_requirements.t = "list" =>
    \A i \in DOMAIN given.fr :
      ~PassesFilter(given.fr[i]) =>
        \A k \in DOMAIN result.functional_requirements.v :
          result.functional_requirements.v[k] # JStr(given.fr[i])

\* the lines before line b, all the lines when b = 0
Before(lines, b) == IF b = 0 THEN lines ELSE SubSeq(lines, 1, b - 1)

\* whether line i is not blank and holds one of the heading markers
HeadingAt(lines, i, markers) ==
  CleanLine(lines[i]) # <<>> /\ ContainsAny(StrLower(CleanLine(lines[i])), markers)

\* the first boundary line of each scanner, 0 when there is none: the first
\* scenario heading that is no non-functional heading, the first risk heading
\* that is no scenario heading, the first line starting with "5." that is no
\* risk heading
NonFunctionalBoundary(lines) ==
  Least({i \in DOMAIN lines : /\ HeadingAt(lines, i, scenario_markers)
                              /\ ~HeadingAt(lines, i, non_functional_markers)})
ScenarioBoundary(lines) ==
  Least({i \in DOMAIN lines : /\ HeadingAt(lines, i, risk_markers)
                              /\ ~HeadingAt(lines, i, scenario_markers)})
RiskBoundary(lines) ==
  Least({i \in DOMAIN lines : /\ StartsWith(CleanLine(lines[i]), <<"5", ".">>)
                              /\ ~HeadingAt(lines, i, risk_markers)})

\* the scenarios made from the descriptions of the scenario scanner
ScenariosOf(descriptions) ==
  IF descriptions = <<>> THEN JList(<<DefaultScenario>>)
  ELSE LineScenarios(descriptions)

\* C20: each of the three scanners stops for good at its first boundary
\* line, whether it has entered its section or not: what it returns for a
\* text is what its scan returns for the lines before that boundary line
C20_StopsAtBoundary ==
  pc = "finalize" /\ pat = 0 /\ response_str # <<>> =>
    LET lines == Lines(response_str)
    IN /\ structured_result.non_functional_requirements
            = StrList(SectionScan(NonFunctionalExit,
                                  Before(lines, NonFunctionalBoundary(lines)),
                                  1, FALSE, <<>>, non_functional_markers,
                                  non_functional_prefixes))
       /\ structured_result.test_scenarios
            = ScenariosOf(SectionScan(ScenarioExit,
                                      Before(lines, ScenarioBoundary(lines)),
                                      1, FALSE, <<>>, scenario_markers,
                                      scenario_prefixes))
       /\ structured_result.risk_areas
            = StrList(SectionScan(RiskExit, Before(lines, RiskBoundary(lines)),
                                  1, FALSE, <<>>, risk_markers, risk_prefixes))

\* each boundary line comes before the heading of its scanner, with bullet
\* lines under that heading: the three scanners found nothing
C20_Witness ==
  /\ pc = "finalize" /\ given.kind = "reversed"
  /\ given.nfr # <<>> /\ given.scen # <<>> /\ given.ra # <<>>
  /\ structured_result.non_functional_requirements = StrList(<<>>)
  /\ structured_result.test_scenarios = JList(<<DefaultScenario>>)
  /\ structured_result.risk_areas = StrList(<<>>)

====
